---- MODULE Spec2Model ----
(***************************************************************************)
(* Model of the Excel handle cache (FileCache) and of the Manager that     *)
(* owns it, from kevsmith/my-mcp pkg/excel.                                *)
(*                                                                         *)
(* Goroutines are the processes of the model.  A critical section of the   *)
(* cache is two steps: acquiring fc.mutex (which may block), then the body *)
(* together with the unlock; the sweep of the cleanup ticker, whose        *)
(* goroutine does nothing else, is one step.  What a goroutine does on its *)
(* own locals is taken together with the step before it.  Everything the   *)
(* Manager does outside the cache (the currentSheet map) is done with no   *)
(* lock held, as in the code.                                              *)
(***************************************************************************)
EXTENDS Integers, Sequences, FiniteSets, TLC

\* ---------------------------------------------------------------- bounds
NumKeys == 3
MaxCap == 2
MaxHandles == 3
MaxTime == 2
NumWorkers == 2
DefaultTTL == 1
NumPaths == 2

Keys == 1..NumKeys
Handles == 1..MaxHandles
Workers == 1..NumWorkers
Nodes == 1..(NumKeys + 1)
\* the workbooks the Manager's callers name
Paths == 1..NumPaths

NoHandle == 0

\* excelize.File.GetSheetList() of the workbooks behind the paths
SheetList == <<"Sheet1", "Sheet2">>
\* the last path names a workbook without sheets
EmptyBook == NumPaths
SheetsOf(k) == IF k = EmptyBook THEN <<>> ELSE SheetList
SheetArgs == {"Sheet1", "Sheet2", "sheet2", "NonExistentSheet"}

VARIABLES
    maxSize,        \* FileCache.maxSize
    cache,          \* FileCache.cache: path -> CacheEntry
    lruList,        \* FileCache.lruList: elements front to back
    mutex,          \* FileCache.mutex: [writers, readers], the goroutines holding it
    closeCount,     \* per handle: how many times excelize.File.Close ran
    nextHandle,     \* the next handle excelize.OpenFile returns
    now,            \* time.Now()
    currentSheet,   \* Manager.currentSheet: path -> sheet name
    crashed,        \* the Go runtime stopped the process (fatal error)
    proc,           \* per goroutine: its place and its locals
    held,           \* history: handles the cache has held
    lastPut,        \* history: per cached path, the time of its last Put
    useOrder,       \* history: cached paths, most recent successful Get/Put first
    ticker,         \* the cleanup ticker and the goroutine that ranges over ticker.C
    lastFile,       \* history: per cached path, the handle of its last Put
    lastSel,        \* history: per path, the name of its last successful
                    \* SetCurrentSheet since the last FlushCache returned
    fx              \* a call of a function of the packages outside the cache:
                    \* its receiver, its arguments and its result

cacheVars == <<maxSize, cache, lruList, closeCount>>
histVars == <<held, lastPut, useOrder, lastSel, lastFile>>
vars == <<maxSize, cache, lruList, mutex, closeCount, nextHandle, now,
          currentSheet, crashed, proc, held, lastPut, useOrder, ticker,
          lastSel, lastFile, fx>>

\* ------------------------------------------------- container/list helpers
RECURSIVE SeqWithout(_, _)
SeqWithout(s, n) ==
    IF s = <<>> THEN <<>>
    ELSE IF Head(s).node = n THEN SeqWithout(Tail(s), n)
    ELSE <<Head(s)>> \o SeqWithout(Tail(s), n)

ListNodes(l) == {l[i].node : i \in 1..Len(l)}
ListValues(l) == {l[i].Value : i \in 1..Len(l)}
ElemOf(l, n) == CHOOSE e \in {l[i] : i \in 1..Len(l)} : e.node = n

\* list.PushFront: a new element in front; its identity is a node not in use
FreshNode(l) == CHOOSE n \in Nodes : n \notin ListNodes(l) /\
                    \A m \in Nodes : m \notin ListNodes(l) => n <= m
PushFront(l, v) == <<[node |-> FreshNode(l), Value |-> v]>> \o l

\* MoveToFront that turns the rest of the list round
MoveToFrontReversed(l, n) ==
    IF n \in ListNodes(l)
    THEN LET rest == SeqWithout(l, n)
         IN  <<ElemOf(l, n)>> \o [i \in 1..Len(rest) |-> rest[Len(rest) + 1 - i]]
    ELSE l

\* list.MoveToFront: no effect on an element that is not in the list
MoveToFront(l, n) ==
    IF n \in ListNodes(l) THEN <<ElemOf(l, n)>> \o SeqWithout(l, n) ELSE l

\* list.Remove: no effect on an element that is not in the list
ListRemove(l, n) == SeqWithout(l, n)

\* ------------------------------------------------------ FileCache, pure
\* The state the cache operations work on: c = [cache, lruList, closeCount]
MapDelete(m, k) == [x \in (DOMAIN m) \ {k} |-> m[x]]
MapSet(m, k, v) == [x \in (DOMAIN m) \cup {k} |-> IF x = k THEN v ELSE m[x]]

CloseFile(cc, h) == IF h = NoHandle THEN cc ELSE [cc EXCEPT ![h] = @ + 1]

\* a comparison that takes the deadline itself as past
AfterOrAt(t, u) == t >= u

After(t, u) == t > u

\* removeEntry that forgets fc.lruList.Remove
removeEntryKeepsNode(c, k, entry) ==
    [cache |-> MapDelete(c.cache, k),
     lruList |-> c.lruList,
     closeCount |-> CloseFile(c.closeCount, entry.file)]

removeEntry(c, k, entry) ==
    [cache |-> MapDelete(c.cache, k),
     lruList |-> ListRemove(c.lruList, entry.listNode),
     closeCount |-> CloseFile(c.closeCount, entry.file)]

evictOldest(c) ==
    IF Len(c.lruList) = 0 THEN c
    ELSE LET oldest == c.lruList[Len(c.lruList)]
             filePath == oldest.Value
         IN IF filePath \in DOMAIN c.cache
            THEN removeEntry(c, filePath, c.cache[filePath])
            ELSE c

\* the loop of Put: for fc.lruList.Len() > fc.maxSize { fc.evictOldest() }
\* (an evictOldest that removes nothing would spin for ever: the model stops)
RECURSIVE EvictLoop(_, _)
EvictLoop(c, max) ==
    IF Len(c.lruList) > max /\ evictOldest(c) # c
    THEN EvictLoop(evictOldest(c), max)
    ELSE c

\* Put that keeps the file of an entry it finds
PutOpKeepsFile(c, max, k, h, t) ==
    IF k \in DOMAIN c.cache
    THEN [c EXCEPT !.cache[k].expireAt = t + DefaultTTL,
                   !.lruList = MoveToFront(c.lruList, c.cache[k].listNode)]
    ELSE LET node == FreshNode(c.lruList)
             entry == [file |-> h, expireAt |-> t + DefaultTTL, listNode |-> node]
         IN EvictLoop([c EXCEPT !.cache = MapSet(c.cache, k, entry),
                                !.lruList = PushFront(c.lruList, k)], max)

\* Put without the eviction loop
PutOpNoEvict(c, max, k, h, t) ==
    IF k \in DOMAIN c.cache
    THEN [c EXCEPT !.cache[k].file = h,
                   !.cache[k].expireAt = t + DefaultTTL,
                   !.lruList = MoveToFront(c.lruList, c.cache[k].listNode)]
    ELSE LET node == FreshNode(c.lruList)
             entry == [file |-> h, expireAt |-> t + DefaultTTL, listNode |-> node]
         IN [c EXCEPT !.cache = MapSet(c.cache, k, entry),
                      !.lruList = PushFront(c.lruList, k)]

PutOp(c, max, k, h, t) ==
    IF k \in DOMAIN c.cache
    THEN [c EXCEPT !.cache[k].file = h,
                   !.cache[k].expireAt = t + DefaultTTL,
                   !.lruList = MoveToFront(c.lruList, c.cache[k].listNode)]
    ELSE LET node == FreshNode(c.lruList)
             entry == [file |-> h, expireAt |-> t + DefaultTTL, listNode |-> node]
         IN EvictLoop([c EXCEPT !.cache = MapSet(c.cache, k, entry),
                                !.lruList = PushFront(c.lruList, k)], max)

RECURSIVE CloseAll(_, _, _)
CloseAll(cc, m, ks) ==
    IF ks = {} THEN cc
    ELSE LET k == CHOOSE x \in ks : TRUE
         IN CloseAll(CloseFile(cc, m[k].file), m, ks \ {k})

\* func (fc *FileCache) Clear() has no result
NoResult == -1
ClearResult(c) == NoResult

ClearOp(c) ==
    [cache |-> [x \in {} |-> 0],
     lruList |-> <<>>,
     closeCount |-> CloseAll(c.closeCount, c.cache, DOMAIN c.cache)]

RECURSIVE RemoveAll(_, _)
RemoveAll(c, ks) ==
    IF ks = {} THEN c
    ELSE LET k == CHOOSE x \in ks : TRUE
         IN RemoveAll(IF k \in DOMAIN c.cache
                      THEN removeEntry(c, k, c.cache[k]) ELSE c, ks \ {k})

\* a sweep that removes one expired entry and leaves the others
CleanExpiredOpOne(c, t) ==
    LET expired == {k \in DOMAIN c.cache : After(t, c.cache[k].expireAt)}
    IN  IF expired = {} THEN c
        ELSE RemoveAll(c, {CHOOSE k \in expired : TRUE})

CleanExpiredOp(c, t) ==
    RemoveAll(c, {k \in DOMAIN c.cache : After(t, c.cache[k].expireAt)})

\* a purge that removes every expired entry it finds
GetPurgeOpAll(c, k, t) == CleanExpiredOp(c, t)

\* a purge that does not look at the deadline again
GetPurgeOpUnchecked(c, k, t) ==
    IF k \in DOMAIN c.cache THEN removeEntry(c, k, c.cache[k]) ELSE c

\* Get, the body under the exclusive lock after an expired read
GetPurgeOp(c, k, t) ==
    IF k \in DOMAIN c.cache /\ After(t, c.cache[k].expireAt)
    THEN removeEntry(c, k, c.cache[k])
    ELSE c

\* a hit that also renews the deadline (a sliding TTL)
GetPromoteOpSliding(c, k, t) ==
    IF k \in DOMAIN c.cache /\ ~After(t, c.cache[k].expireAt)
    THEN [c EXCEPT !.lruList = MoveToFront(c.lruList, c.cache[k].listNode),
                   !.cache[k].expireAt = t + DefaultTTL]
    ELSE c

\* Get, the body under the exclusive lock after a hit
GetPromoteOp(c, k, t) ==
    IF k \in DOMAIN c.cache /\ ~After(t, c.cache[k].expireAt)
    THEN [c EXCEPT !.lruList = MoveToFront(c.lruList, c.cache[k].listNode)]
    ELSE c

\* a Size that leaves out the entries past their deadline
SizeUnexpired(m) == Cardinality({k \in DOMAIN m : ~After(now, m[k].expireAt)})

Size(m) == Cardinality(DOMAIN m)

\* ------------------------------------------------------------ the state
C == [cache |-> cache, lruList |-> lruList, closeCount |-> closeCount]
SetC(c) == cache' = c.cache /\ lruList' = c.lruList /\ closeCount' = c.closeCount

EmptyMap == [x \in {} |-> 0]

\* a goroutine between calls: pc is its place, stack the places its running
\* calls return to, op the call it was started with; then the locals:
\* filePath, file, found (Get's second result), now (Get's local), sheetName,
\* cacheSize and the error returned ("" is nil) with the sheet list its
\* message prints; the rest is history of the state when the call was made:
\* before the cache's keys, selBefore the selections
IdleProc == [pc |-> "idle", stack |-> <<>>, op |-> "none", key |-> 0,
             file |-> NoHandle, found |-> FALSE, lnow |-> 0, sheet |-> "",
             count |-> 0, err |-> "", errSheets |-> <<>>, before |-> {},
             selBefore |-> [x \in {} |-> 0], cell |-> <<>>,
             info |-> [Sheet |-> "", Cell |-> <<>>, Formula |-> <<>>,
                       Value |-> <<>>, TranslatedFormula |-> <<>>,
                       Label |-> <<>>]]

NoCall == [op |-> "none"]

InitCache ==
    /\ maxSize \in 1..MaxCap
    /\ cache = EmptyMap
    /\ lruList = <<>>
    /\ mutex = [writers |-> {}, readers |-> {}]
    /\ closeCount = [h \in Handles |-> 0]
    /\ nextHandle = 1
    /\ now = 0
    /\ currentSheet = EmptyMap
    /\ crashed = FALSE
    /\ proc = [t \in Workers |-> IdleProc]
    /\ held = {}
    /\ lastPut = EmptyMap
    /\ useOrder = <<>>
    /\ ticker = [stopped |-> FALSE, pc |-> "recv"]
    /\ lastSel = EmptyMap
    /\ lastFile = EmptyMap

Init == InitCache /\ fx = NoCall

\* ------------------------------------------------------- sync.RWMutex
CanLock == mutex.writers = {} /\ mutex.readers = {}
CanRLock == mutex.writers = {}
Lock(t) == mutex' = [mutex EXCEPT !.writers = {t}]
Unlock(t) == mutex' = [mutex EXCEPT !.writers = {}]
RLock(t) == mutex' = [mutex EXCEPT !.readers = @ \cup {t}]
RUnlock(t) == mutex' = [mutex EXCEPT !.readers = @ \ {t}]
HoldsLock(t) == t \in mutex.writers
HoldsRLock(t) == t \in mutex.readers

\* ------------------------------------------------------- history helpers
Touch(u, k) == <<k>> \o SelectSeq(u, LAMBDA x : x # k)
Restrict(u, S) == SelectSeq(u, LAMBDA x : x \in S)
MapRestrict(m, S) == [x \in (DOMAIN m) \cap S |-> m[x]]


\* --------------------------------------------------- calls and returns
At(t, l) == ~crashed /\ proc[t].pc = l
Set(t, p) == proc' = [proc EXCEPT ![t] = p]
Goto(p, l) == [p EXCEPT !.pc = l]

\* an error returned all the way up to the caller of the goroutine's call
Fail(p, e) ==
    LET q == [p EXCEPT !.pc = p.stack[Len(p.stack)], !.stack = <<>>,
                       !.err = e, !.file = NoHandle]
    IN IF q.pc = "idle" THEN IdleProc ELSE q

\* a lookup that takes the name without regard to case
InSheetListFold(sheets, name) ==
    \E i \in 1..Len(sheets) :
        sheets[i] = (IF name = "sheet2" THEN "Sheet2" ELSE name)

InSheetList(sheets, name) == \E i \in 1..Len(sheets) : sheets[i] = name

\* A call returns to the place on top of the stack, and the caller goes on
\* to its next access to the cache, to the map or to the file system:
\*   OpenFile returns the file that Get found;
\*   SetCurrentSheet looks the name up in file.GetSheetList();
\*   the goroutine that returns to "idle" has dropped its locals.
RECURSIVE Return(_)
Return(p) ==
    LET q == [p EXCEPT !.pc = Head(p.stack), !.stack = Tail(p.stack)]
    IN CASE q.pc = "idle" -> IdleProc
         [] q.pc = "open_after_get" /\ q.found -> Return(q)
         [] q.pc = "set_check" ->
                IF InSheetList(SheetsOf(q.key), q.sheet)
                THEN Goto(q, "set_write")
                ELSE Fail([q EXCEPT !.errSheets = SheetsOf(q.key)],
                          "sheet not found")
         [] OTHER -> q

\* ------------------------------------------------------ FileCache.Get
\* the fast path: presence and expiry under the shared lock
GetCheck(t, p) ==
    /\ At(t, "get_check")
    /\ RUnlock(t)
    /\ IF p.key \notin DOMAIN cache
       THEN Set(t, Return([p EXCEPT !.found = FALSE, !.file = NoHandle]))
       ELSE IF After(now, cache[p.key].expireAt)
            THEN Set(t, [p EXCEPT !.pc = "get_lock_exp", !.lnow = now])
            ELSE Set(t, [p EXCEPT !.pc = "get_lock_hit",
                                  !.file = cache[p.key].file])
    /\ UNCHANGED <<fx, cacheVars, nextHandle, now, currentSheet, crashed, ticker,
                   lastSel, held, lastPut, lastFile, useOrder>>

GetLockExpired(t, p) ==
    /\ At(t, "get_lock_exp") /\ CanLock
    /\ Lock(t)
    /\ Set(t, Goto(p, "get_purge"))
    /\ UNCHANGED <<fx, cacheVars, nextHandle, now, currentSheet, crashed, ticker,
                   lastSel, held, lastPut, lastFile, useOrder>>

\* the expired path: purge under the exclusive lock, with the now read before
GetPurge(t, p) ==
    /\ At(t, "get_purge")
    /\ SetC(GetPurgeOp(C, p.key, p.lnow))
    /\ Unlock(t)
    /\ Set(t, Return([p EXCEPT !.found = FALSE, !.file = NoHandle, !.lnow = 0]))
    /\ useOrder' = Restrict(useOrder, DOMAIN cache')
    /\ lastPut' = MapRestrict(lastPut, DOMAIN cache')
    /\ lastFile' = MapRestrict(lastFile, DOMAIN cache')
    /\ UNCHANGED <<fx, maxSize, nextHandle, now, currentSheet, crashed, ticker,
                   lastSel, held>>

GetLockHit(t, p) ==
    /\ At(t, "get_lock_hit") /\ CanLock
    /\ Lock(t)
    /\ Set(t, Goto(p, "get_promote"))
    /\ UNCHANGED <<fx, cacheVars, nextHandle, now, currentSheet, crashed, ticker,
                   lastSel, held, lastPut, lastFile, useOrder>>

\* the hit path: the LRU update under the exclusive lock; Get then returns
\* the file it read under the shared lock, and true
GetPromote(t, p) ==
    /\ At(t, "get_promote")
    /\ SetC(GetPromoteOp(C, p.key, now))
    /\ Unlock(t)
    /\ Set(t, Return([p EXCEPT !.found = TRUE]))
    /\ useOrder' = IF p.key \in DOMAIN cache THEN Touch(useOrder, p.key)
                   ELSE useOrder
    /\ UNCHANGED <<fx, maxSize, nextHandle, now, currentSheet, crashed, ticker,
                   lastSel, held, lastPut, lastFile>>

\* ------------------------------------------------------ FileCache.Put
PutBody(t, p) ==
    /\ At(t, "put_body")
    /\ SetC(PutOp(C, maxSize, p.key, p.file, now))
    /\ Unlock(t)
    /\ Set(t, Return(p))
    /\ held' = held \cup {p.file}
    /\ lastPut' = MapRestrict(MapSet(lastPut, p.key, now), DOMAIN cache')
    /\ lastFile' = MapRestrict(MapSet(lastFile, p.key, p.file), DOMAIN cache')
    /\ useOrder' = Restrict(Touch(useOrder, p.key), DOMAIN cache')
    /\ UNCHANGED <<fx, maxSize, nextHandle, now, currentSheet, crashed, ticker,
                   lastSel>>

\* ---------------------------------------------------- FileCache.Clear
ClearLock(t, p) ==
    /\ At(t, "clear") /\ CanLock
    /\ Lock(t)
    /\ Set(t, Goto(p, "clear_body"))
    /\ UNCHANGED <<fx, cacheVars, nextHandle, now, currentSheet, crashed, ticker,
                   lastSel, held, lastPut, lastFile, useOrder>>

ClearBody(t, p) ==
    /\ At(t, "clear_body")
    /\ SetC(ClearOp(C))
    /\ Unlock(t)
    /\ Set(t, Return(p))
    /\ useOrder' = Restrict(useOrder, DOMAIN cache')
    /\ lastPut' = MapRestrict(lastPut, DOMAIN cache')
    /\ lastFile' = MapRestrict(lastFile, DOMAIN cache')
    /\ UNCHANGED <<fx, maxSize, nextHandle, now, currentSheet, crashed, ticker,
                   lastSel, held>>

\* --------------------------------------------- FileCache.CleanExpired
CleanExpiredBody(t, p) ==
    /\ At(t, "clean_body")
    /\ SetC(CleanExpiredOp(C, now))
    /\ Unlock(t)
    /\ Set(t, Return(p))
    /\ useOrder' = Restrict(useOrder, DOMAIN cache')
    /\ lastPut' = MapRestrict(lastPut, DOMAIN cache')
    /\ lastFile' = MapRestrict(lastFile, DOMAIN cache')
    /\ UNCHANGED <<fx, maxSize, nextHandle, now, currentSheet, crashed, ticker,
                   lastSel, held>>

\* ------------------------------------------------------ FileCache.Size
SizeBody(t, p) ==
    /\ At(t, "size_body")
    /\ RUnlock(t)
    /\ Set(t, Return([p EXCEPT !.count = Size(cache)]))
    /\ UNCHANGED <<fx, cacheVars, nextHandle, now, currentSheet, crashed, ticker,
                   lastSel, held, lastPut, lastFile, useOrder>>

\* ------------------------------------------- callers of the cache alone
\* The goroutine calls Get(k), Put(k, a file just opened), Clear() or
\* CleanExpired() and gets the lock the method takes first; the results of
\* Get stay in "done" until the goroutine goes on.
CallGet(t, k) ==
    /\ At(t, "idle") /\ CanRLock
    /\ RLock(t)
    /\ Set(t, [IdleProc EXCEPT !.pc = "get_check", !.stack = <<"done">>,
                               !.op = "Get", !.key = k])
    /\ UNCHANGED <<fx, cacheVars, nextHandle, now, currentSheet, crashed, ticker,
                   lastSel, held, lastPut, lastFile, useOrder>>

CallPut(t, k) ==
    /\ At(t, "idle") /\ nextHandle <= MaxHandles /\ CanLock
    /\ Lock(t)
    /\ Set(t, [IdleProc EXCEPT !.pc = "put_body", !.stack = <<"idle">>,
                               !.op = "Put", !.key = k, !.file = nextHandle])
    /\ nextHandle' = nextHandle + 1
    /\ UNCHANGED <<fx, cacheVars, now, currentSheet, crashed, ticker, lastSel,
                   held, lastPut, lastFile, useOrder>>

CallClear(t) ==
    /\ At(t, "idle") /\ CanLock
    /\ Lock(t)
    /\ Set(t, [IdleProc EXCEPT !.pc = "clear_body", !.stack = <<"idle">>,
                               !.op = "Clear"])
    /\ UNCHANGED <<fx, cacheVars, nextHandle, now, currentSheet, crashed, ticker,
                   lastSel, held, lastPut, lastFile, useOrder>>

CallCleanExpired(t) ==
    /\ At(t, "idle") /\ CanLock
    /\ Lock(t)
    /\ Set(t, [IdleProc EXCEPT !.pc = "clean_body", !.stack = <<"idle">>,
                               !.op = "CleanExpired"])
    /\ UNCHANGED <<fx, cacheVars, nextHandle, now, currentSheet, crashed, ticker,
                   lastSel, held, lastPut, lastFile, useOrder>>

Finish(t) ==
    /\ At(t, "done")
    /\ Set(t, IdleProc)
    /\ UNCHANGED <<fx, cacheVars, mutex, nextHandle, now, currentSheet, crashed,
                   ticker, lastSel, held, lastPut, lastFile, useOrder>>

\* time passes
Tick ==
    /\ ~crashed /\ now < MaxTime
    /\ now' = now + 1
    /\ UNCHANGED <<fx, cacheVars, mutex, nextHandle, currentSheet, crashed,
                   ticker, proc, histVars>>

\* the steps inside Get, Put and Clear
CacheStep(t) ==
    \/ GetCheck(t, proc[t])
    \/ GetLockExpired(t, proc[t])
    \/ GetPurge(t, proc[t])
    \/ GetLockHit(t, proc[t])
    \/ GetPromote(t, proc[t])
    \/ PutBody(t, proc[t])
    \/ ClearBody(t, proc[t])

\* --------------------------------------- the cache alone, called directly
NextCache ==
    \/ \E t \in Workers, k \in Keys : CallGet(t, k)
    \/ \E t \in Workers, k \in Keys : CallPut(t, k)
    \/ \E t \in Workers : CallClear(t)
    \/ \E t \in Workers : CallCleanExpired(t)
    \/ \E t \in Workers : CacheStep(t)
    \/ \E t \in Workers : CleanExpiredBody(t, proc[t])
    \/ \E t \in Workers : Finish(t)
    \/ Tick

SpecCache == Init /\ [][NextCache]_vars

\* ---------------------------------------------------- Manager.OpenFile
\* after a miss of m.cache.Get: excelize.OpenFile, which may fail, and then
\* m.cache.Put of the new handle, up to its fc.mutex.Lock()
OpenMiss(t, p) ==
    /\ At(t, "open_after_get")
    /\ \/ /\ nextHandle <= MaxHandles /\ CanLock
          /\ Lock(t)
          /\ Set(t, [p EXCEPT !.pc = "put_body", !.file = nextHandle])
          /\ nextHandle' = nextHandle + 1
       \/ /\ Set(t, Fail(p, "open failed"))
          /\ UNCHANGED <<nextHandle, mutex>>
    /\ UNCHANGED <<fx, cacheVars, now, currentSheet, crashed, ticker, lastSel,
                   held, lastPut, lastFile, useOrder>>

\* ---------------------------------------------- Manager.SetCurrentSheet
\* a selection that is kept when the path already has one
SelectSheetOnce(m, k, name) == IF k \in DOMAIN m THEN m ELSE MapSet(m, k, name)

\* m.currentSheet[filePath] = sheetName
SelectSheet(m, k, name) == MapSet(m, k, name)

SetWrite(t, p) ==
    /\ At(t, "set_write")
    /\ currentSheet' = SelectSheet(currentSheet, p.key, p.sheet)
    /\ Set(t, Return(p))
    /\ lastSel' = MapSet(lastSel, p.key, p.sheet)
    /\ UNCHANGED <<fx, cacheVars, mutex, nextHandle, now, crashed, ticker, held,
                   lastPut, lastFile, useOrder>>

\* ---------------------------------------------- Manager.GetCurrentSheet
\* a GetCurrentSheet that does not look at the selections
GetCurrentSheetFirst(m, k) ==
    IF Len(SheetsOf(k)) = 0
    THEN [sheet |-> "", err |-> "no sheets found in file"]
    ELSE [sheet |-> SheetsOf(k)[1], err |-> ""]

GetCurrentSheet(m, k) ==
    IF k \in DOMAIN m THEN [sheet |-> m[k], err |-> ""]
    ELSE IF Len(SheetsOf(k)) = 0
         THEN [sheet |-> "", err |-> "no sheets found in file"]
    ELSE [sheet |-> SheetsOf(k)[1], err |-> ""]

CurrentRead(t, p) ==
    /\ At(t, "current_read")
    /\ LET r == GetCurrentSheet(currentSheet, p.key)
       IN Set(t, IF r.err = "" THEN Return([p EXCEPT !.sheet = r.sheet])
                 ELSE Fail(p, r.err))
    /\ UNCHANGED <<fx, cacheVars, mutex, nextHandle, now, currentSheet, crashed,
                   ticker, lastSel, held, lastPut, lastFile, useOrder>>

\* --------------------------------------------------- Manager.FlushCache
\* after m.cache.Size() and m.cache.Clear(): m.currentSheet = make(...)
FlushReset(t, p) ==
    /\ At(t, "flush_reset")
    /\ currentSheet' = EmptyMap
    /\ Set(t, Return(p))
    /\ lastSel' = EmptyMap
    /\ UNCHANGED <<fx, cacheVars, mutex, nextHandle, now, crashed, ticker, held,
                   lastPut, lastFile, useOrder>>

\* ------------------------------------------------ callers of the Manager
\* every call of the Manager but FlushCache starts with m.OpenFile, that is
\* with m.cache.Get and its fc.mutex.RLock()
CallOpenFile(t, k, ret) ==
    /\ At(t, "idle") /\ CanRLock
    /\ RLock(t)
    /\ Set(t, [IdleProc EXCEPT !.pc = "get_check", !.op = "OpenFile", !.key = k,
                               !.stack = <<"open_after_get", ret>>])
    /\ UNCHANGED <<fx, cacheVars, nextHandle, now, currentSheet, crashed, ticker,
                   lastSel, held, lastPut, lastFile, useOrder>>

CallSetCurrentSheet(t, k, name, ret) ==
    /\ At(t, "idle") /\ CanRLock
    /\ RLock(t)
    /\ Set(t, [IdleProc EXCEPT !.pc = "get_check", !.op = "SetCurrentSheet",
                               !.key = k, !.sheet = name,
                               !.selBefore = currentSheet,
                               !.stack = <<"open_after_get", "set_check", ret>>])
    /\ UNCHANGED <<fx, cacheVars, nextHandle, now, currentSheet, crashed, ticker,
                   lastSel, held, lastPut, lastFile, useOrder>>

\* m.OpenFile(filePath) and then m.GetCurrentSheet(filePath, file), as every
\* caller of GetCurrentSheet does
CallGetCurrentSheet(t, k, ret) ==
    /\ At(t, "idle") /\ CanRLock
    /\ RLock(t)
    /\ Set(t, [IdleProc EXCEPT !.pc = "get_check", !.op = "GetCurrentSheet",
                               !.key = k,
                               !.stack = <<"open_after_get", "current_read", ret>>])
    /\ UNCHANGED <<fx, cacheVars, nextHandle, now, currentSheet, crashed, ticker,
                   lastSel, held, lastPut, lastFile, useOrder>>

\* FlushCache starts with m.cache.Size() and its fc.mutex.RLock()
CallFlushCache(t, ret) ==
    /\ At(t, "idle") /\ CanRLock
    /\ RLock(t)
    /\ Set(t, [IdleProc EXCEPT !.pc = "size_body", !.op = "FlushCache",
                               !.before = DOMAIN cache,
                               !.selBefore = currentSheet,
                               !.stack = <<"clear", "flush_reset", ret>>])
    /\ UNCHANGED <<fx, cacheVars, nextHandle, now, currentSheet, crashed, ticker,
                   lastSel, held, lastPut, lastFile, useOrder>>

\* -------------------------------------------------------- Manager.Close
\* m.cleanupTicker.Stop(), and then m.cache.Clear() up to its Lock
CallClose(t, ret) ==
    /\ At(t, "idle")
    /\ ticker' = [ticker EXCEPT !.stopped = TRUE]
    /\ Set(t, [IdleProc EXCEPT !.pc = "clear", !.op = "Close",
                               !.stack = <<ret>>])
    /\ UNCHANGED <<fx, cacheVars, mutex, nextHandle, now, currentSheet, crashed,
                   histVars>>

\* the goroutine of StartCleanupTicker: for range ticker.C { fc.CleanExpired() }
\* It does nothing else, so its Lock, its sweep and its Unlock are one step.
\* The goroutine waits in the receive from ticker.C; the runtime sends on
\* that channel while the ticker is not stopped and never closes it, so the
\* loop has no step that leaves it.
TickerFire ==
    /\ ~crashed /\ CanLock
    /\ ticker.pc = "recv" /\ ~ticker.stopped
    /\ SetC(CleanExpiredOp(C, now))
    /\ useOrder' = Restrict(useOrder, DOMAIN cache')
    /\ lastPut' = MapRestrict(lastPut, DOMAIN cache')
    /\ lastFile' = MapRestrict(lastFile, DOMAIN cache')
    /\ UNCHANGED <<fx, maxSize, mutex, nextHandle, now, currentSheet, crashed,
                   ticker, lastSel, proc, held>>

\* two goroutines in the currentSheet map at once, one of them writing: the
\* Go runtime may stop the process (fatal error: concurrent map writes, or
\* concurrent map read and map write), or may not notice
MapRace ==
    \E t, u \in Workers : t # u /\ proc[t].pc = "set_write"
                              /\ proc[u].pc \in {"set_write", "current_read"}

Fatal ==
    /\ ~crashed /\ MapRace
    /\ crashed' = TRUE
    /\ UNCHANGED <<fx, cacheVars, ticker, mutex, nextHandle, now, currentSheet,
                   proc, histVars>>

ManagerStep(t) ==
    \/ OpenMiss(t, proc[t])
    \/ SetWrite(t, proc[t])
    \/ CurrentRead(t, proc[t])
    \/ SizeBody(t, proc[t])
    \/ ClearLock(t, proc[t])
    \/ FlushReset(t, proc[t])

\* ------------------------------- the Manager, its callers and its ticker
\* the calls of the goroutines W, with sheet names drawn from names, that
\* return to ret: "done" keeps the results, "idle" drops them
ManagerCalls(W, names, ret) ==
    \/ \E t \in W, k \in Paths : CallOpenFile(t, k, ret)
    \/ \E t \in W, k \in Paths, name \in names : CallSetCurrentSheet(t, k, name, ret)
    \/ \E t \in W, k \in Paths : CallGetCurrentSheet(t, k, ret)
    \/ \E t \in W : CallFlushCache(t, ret)
    \/ \E t \in W : CacheStep(t)
    \/ \E t \in W : ManagerStep(t)

Next ==
    \/ ManagerCalls(Workers, {"Sheet2", "NonExistentSheet"}, "idle")
    \/ TickerFire
    \/ Tick
    \/ Fatal

\* the Manager of a cache of one entry (NewManagerWithConfig)
InitManager == Init /\ maxSize = 1

Spec == InitManager /\ [][Next]_vars

\* ------------------------------ the Manager with one caller and its ticker
\* one goroutine makes the calls one after the other and keeps each result
\* in "done" until it goes on
NextSeq ==
    \/ ManagerCalls({1}, SheetArgs, "done")
    \/ Finish(1)
    \/ TickerFire
    \/ Tick

SpecSeq == Init /\ [][NextSeq]_vars

\* -------------------- the Manager with one caller, up to and after Close
NextClose ==
    \/ NextSeq
    \/ CallClose(1, "done")

SpecClose == Init /\ [][NextClose]_vars

\* ============================================ pkg/excel: FormulaExtractor
\* Strings are sequences of one-character strings. A sheet is a record
\* [value, formula]: two maps from <<col, row>> to the text of the cell; a
\* cell that is in neither map is empty.
SeqsUpTo(S, n) == UNION {[1..k -> S] : k \in 0..n}
Max(a, b) == IF a >= b THEN a ELSE b

Letters == {"A", "B", "C"}
Digits == {"0", "1", "2", "3", "4", "5", "6", "7", "8", "9"}
LetterValue(c) == CHOOSE d \in 1..3 : <<"A", "B", "C">>[d] = c
Digits10 == <<"0", "1", "2", "3", "4", "5", "6", "7", "8", "9">>
DigitValue(c) == CHOOSE d \in 0..9 : <<"0", "1", "2", "3", "4", "5", "6", "7", "8", "9">>[d + 1] = c

\* strings.Split(s, sep) for a one-character separator
RECURSIVE Split(_, _)
Split(s, sep) ==
    IF \E i \in 1..Len(s) : s[i] = sep
    THEN LET i == CHOOSE i \in 1..Len(s) :
                      s[i] = sep /\ \A j \in 1..(i - 1) : s[j] # sep
         IN  <<SubSeq(s, 1, i - 1)>> \o Split(SubSeq(s, i + 1, Len(s)), sep)
    ELSE <<s>>

\* strconv.Atoi on a string of digits
RECURSIVE Atoi(_)
Atoi(s) ==
    IF s = <<>> THEN 0
    ELSE 10 * Atoi(SubSeq(s, 1, Len(s) - 1)) + DigitValue(s[Len(s)])

\* excelize.ColumnNameToNumber on a string of letters: base 26, A = 1
RECURSIVE ColumnNameToNumber(_)
ColumnNameToNumber(s) ==
    IF s = <<>> THEN 0
    ELSE 26 * ColumnNameToNumber(SubSeq(s, 1, Len(s) - 1)) + LetterValue(s[Len(s)])

\* excelize.CellNameToCoordinates: the name is one or more letters followed
\* by one or more digits that give a row above 0, in a column up to XFD;
\* anything else is an error. (The names of the model are too short to pass
\* the last row.)
CellNameToCoordinates(cell) ==
    LET alpha == {i \in 1..Len(cell) : cell[i] \in Letters}
        last == IF alpha = {} THEN 0 ELSE CHOOSE i \in alpha : \A j \in alpha : j <= i
        colName == SubSeq(cell, 1, last)
        rowStr == SubSeq(cell, last + 1, Len(cell))
        ok == /\ 1 \in alpha
              /\ last < Len(cell)
              /\ \A i \in 1..Len(rowStr) : rowStr[i] \in Digits
              /\ Atoi(rowStr) > 0
              /\ \A i \in 1..Len(colName) : colName[i] \in Letters
              /\ Len(colName) <= 3 /\ ColumnNameToNumber(colName) <= 16384
    IN  IF ok THEN [err |-> FALSE, col |-> ColumnNameToNumber(colName), row |-> Atoi(rowStr)]
        ELSE [err |-> TRUE, col |-> -1, row |-> -1]

GetCellValue(file, col, row) ==
    IF <<col, row>> \in DOMAIN file.value THEN file.value[<<col, row>>] ELSE <<>>
GetCellFormula(file, col, row) ==
    IF <<col, row>> \in DOMAIN file.formula THEN file.formula[<<col, row>>] ELSE <<>>

\* strings.TrimSpace: drop the leading spaces, then the trailing ones
RECURSIVE TrimLeft(_)
TrimLeft(s) == IF s # <<>> /\ Head(s) = " " THEN TrimLeft(Tail(s)) ELSE s
RECURSIVE TrimRight(_)
TrimRight(s) ==
    IF s # <<>> /\ s[Len(s)] = " " THEN TrimRight(SubSeq(s, 1, Len(s) - 1)) ELSE s
TrimSpace(s) == TrimRight(TrimLeft(s))

\* isNumeric: strconv.ParseFloat accepts the text. The texts of the model are
\* made of letters A and B, digits and spaces: of these ParseFloat accepts
\* exactly the non-empty strings of digits.
isNumericNever(s) == FALSE
isNumeric(s) == s # <<>> /\ \A i \in 1..Len(s) : s[i] \in Digits

maxHeaderSearchDepth == 10

NewFormulaExtractor(file) == [file |-> file, headerCache |-> EmptyMap]

\* the loop of findColumnHeader, from row r up to row searchEnd
RECURSIVE SearchUp(_, _, _, _)
SearchUp(file, col, r, searchEnd) ==
    IF r < searchEnd THEN <<>>
    ELSE LET value == TrimSpace(GetCellValue(file, col, r))
         IN  IF value # <<>> /\ ~isNumeric(value) THEN value
             ELSE SearchUp(file, col, r - 1, searchEnd)

\* the loop of findRowHeader, from column c leftward to column searchEnd
RECURSIVE SearchLeft(_, _, _, _)
SearchLeft(file, c, row, searchEnd) ==
    IF c < searchEnd THEN <<>>
    ELSE LET value == TrimSpace(GetCellValue(file, c, row))
         IN  IF value # <<>> /\ ~isNumeric(value) THEN value
             ELSE SearchLeft(file, c - 1, row, searchEnd)

\* fmt's %d of a number that is not negative
RECURSIVE Itoa(_)
Itoa(n) ==
    IF n < 10 THEN <<Digits10[n + 1]>>
    ELSE Itoa(n \div 10) \o <<Digits10[(n % 10) + 1]>>

\* the name of the one sheet of a file of the model
TheSheet == <<"S", "1">>

\* fmt.Sprintf("%s:%d:%d", sheetName, col, row)
ColumnKey(sheetName, col, row) ==
    sheetName \o <<":">> \o Itoa(col) \o <<":">> \o Itoa(row)

\* a row key that is the column key
RowKeyShared(sheetName, col, row) == ColumnKey(sheetName, col, row)

\* fmt.Sprintf("%s:r:%d:%d", sheetName, col, row)
RowKey(sheetName, col, row) ==
    sheetName \o <<":", "r", ":">> \o Itoa(col) \o <<":">> \o Itoa(row)

\* findColumnHeader and findRowHeader give the header and the extractor
\* with its header cache filled: fe.headerCache is the map
\* fe.headerCache[sheetName] of the one sheet
findColumnHeader(fe, col, row) ==
    LET key == ColumnKey(TheSheet, col, row)
    IN  IF key \in DOMAIN fe.headerCache
        THEN [header |-> fe.headerCache[key], fe |-> fe]
        ELSE LET h == SearchUp(fe.file, col, row - 1,
                               Max(1, row - maxHeaderSearchDepth))
             IN  [header |-> h,
                  fe |-> [fe EXCEPT !.headerCache = MapSet(@, key, h)]]

findRowHeader(fe, col, row) ==
    LET key == RowKey(TheSheet, col, row)
    IN  IF key \in DOMAIN fe.headerCache
        THEN [header |-> fe.headerCache[key], fe |-> fe]
        ELSE LET h == SearchLeft(fe.file, col - 1, row,
                                 Max(1, col - maxHeaderSearchDepth))
             IN  [header |-> h,
                  fe |-> [fe EXCEPT !.headerCache = MapSet(@, key, h)]]

\* a label that tries the row search first
getCellLabelRowFirst(fe, col, row) ==
    LET r == findRowHeader(fe, col, row)
    IN  IF r.header # <<>> THEN r ELSE findColumnHeader(r.fe, col, row)

getCellLabel(fe, col, row) ==
    LET c == findColumnHeader(fe, col, row)
    IN  IF c.header # <<>> THEN c ELSE findRowHeader(c.fe, col, row)

\* cellRefRegex, \$?[A-Z]+\$?\d+, at position i of s: the last position of
\* the match, or 0. Each part takes all it can and none can give back: what
\* follows the letters must be "$" or a digit, what follows a "$" a letter
\* or a digit.
RunEnd(s, i, S) ==
    LET stop == {j \in i..Len(s) : s[j] \notin S}
    IN  IF stop = {} THEN Len(s) ELSE (CHOOSE j \in stop : \A q \in stop : j <= q) - 1

MatchEnd(s, i) ==
    LET a == IF s[i] = "$" THEN i + 1 ELSE i
        b == RunEnd(s, a, Letters)
        c == IF b + 1 <= Len(s) /\ s[b + 1] = "$" THEN b + 2 ELSE b + 1
        d == RunEnd(s, c, Digits)
    IN  IF b >= a /\ d >= c THEN d ELSE 0

\* a cleanRef that keeps the "$" markers
cleanRefKeepsMarkers(cellRef) == SelectSeq(cellRef, LAMBDA ch : ch # " ")

\* strings.ReplaceAll(strings.ReplaceAll(cellRef, "$", ""), " ", "")
cleanRef(cellRef) == SelectSeq(cellRef, LAMBDA ch : ch \notin {"$", " "})

getCellHeaderByReference(fe, cellRef) ==
    LET at == CellNameToCoordinates(cellRef)
    IN  IF at.err THEN [header |-> <<>>, fe |-> fe]
        ELSE getCellLabel(fe, at.col, at.row)

\* what replaces cellRef once its header h has been looked up
Replacement(cellRef, h) ==
    [text |-> IF h.header # <<>> THEN h.header ELSE cellRef, fe |-> h.fe]

\* a replacement that gives the cleaned reference for one without header
replaceRefCleaned(fe, cellRef) ==
    LET h == getCellHeaderByReference(fe, cleanRef(cellRef))
    IN  [text |-> IF h.header # <<>> THEN h.header ELSE cleanRef(cellRef),
         fe |-> h.fe]

\* the function translateFormula gives to ReplaceAllStringFunc
replaceRef(fe, cellRef) ==
    Replacement(cellRef, getCellHeaderByReference(fe, cleanRef(cellRef)))

\* regexp.ReplaceAllStringFunc from position i on: the matches from left to
\* right, none overlapping another, each replaced once
RECURSIVE ReplaceAllStringFunc(_, _, _)

\* text, then the result r for the rest of the string
Followed(text, r) == [text |-> text \o r.text, fe |-> r.fe]

\* the match s[i..e] replaced by h.text, then the rest
ReplaceMatch(s, e, h) == Followed(h.text, ReplaceAllStringFunc(h.fe, s, e + 1))

\* e is MatchEnd(s, i)
ReplaceFrom(fe, s, i, e) ==
    IF e = 0 THEN Followed(<<s[i]>>, ReplaceAllStringFunc(fe, s, i + 1))
    ELSE ReplaceMatch(s, e, replaceRef(fe, SubSeq(s, i, e)))

ReplaceAllStringFunc(fe, s, i) ==
    IF i > Len(s) THEN [text |-> <<>>, fe |-> fe]
    ELSE ReplaceFrom(fe, s, i, MatchEnd(s, i))

translateFormula(fe, formula) == ReplaceAllStringFunc(fe, formula, 1)

\* the FormulaInfo of a cell with a formula, and the extractor after the
\* look-ups made for it: the value, the translation tr, then the label l
FormulaInfoOf(fe, col, row, formula, tr, l) ==
    [fe |-> l.fe,
     info |-> [Cell |-> <<col, row>>, Formula |-> formula,
               Value |-> GetCellValue(fe.file, col, row),
               TranslatedFormula |-> tr.text, Label |-> l.header]]

LabelledInfo(fe, col, row, formula, tr) ==
    FormulaInfoOf(fe, col, row, formula, tr, getCellLabel(tr.fe, col, row))

TranslatedInfo(fe, col, row, formula) ==
    LabelledInfo(fe, col, row, formula, translateFormula(fe, formula))

\* the two loops of ExtractFormulasFromRange, from cell (col, row) on
RECURSIVE ScanRange(_, _, _, _, _, _, _)
ScanRange(fe, formulas, row, col, startCol, endRow, endCol) ==
    IF row > endRow THEN [fe |-> fe, formulas |-> formulas]
    ELSE IF col > endCol
    THEN ScanRange(fe, formulas, row + 1, startCol, startCol, endRow, endCol)
    ELSE LET formula == GetCellFormula(fe.file, col, row)
             cell == TranslatedInfo(fe, col, row, formula)
         IN  IF formula = <<>>
             THEN ScanRange(fe, formulas, row, col + 1, startCol, endRow, endCol)
             ELSE ScanRange(cell.fe, Append(formulas, cell.info), row, col + 1,
                            startCol, endRow, endCol)

ExtractFormulasFromRange(fe, rangeRef) ==
    LET rangeParts == Split(rangeRef, ":")
        start == CellNameToCoordinates(rangeParts[1])
        end == CellNameToCoordinates(rangeParts[2])
        scan == ScanRange(fe, <<>>, start.row, start.col, start.col, end.row, end.col)
    IN  IF Len(rangeParts) # 2
        THEN [err |-> "invalid range format, expected 'A1:C3'", formulas |-> <<>>, fe |-> fe]
        ELSE IF start.err
        THEN [err |-> "invalid start cell", formulas |-> <<>>, fe |-> fe]
        ELSE IF end.err
        THEN [err |-> "invalid end cell", formulas |-> <<>>, fe |-> fe]
        ELSE [err |-> "", formulas |-> scan.formulas, fe |-> scan.fe]

\* ---------------------------------- ExtractFormulasFromRange on one sheet
\* A1 " Age ", B1 "Dbl", A2 = 30 (a formula), B2 = A2 * 2 (a formula)
MaxRangeLen == 5
RangeChars == {"A", "B", "0", "1", "2", ":"}
RangeSheet ==
    [value |-> (<<1, 1>> :> <<" ", "A", "g", "e", " ">>) @@ (<<2, 1>> :> <<"D", "b", "l">>)
               @@ (<<1, 2>> :> <<"3", "0">>) @@ (<<2, 2>> :> <<"6", "0">>),
     formula |-> (<<1, 2>> :> <<"=", "3", "0">>) @@ (<<2, 2>> :> <<"=", "A", "2", "*", "2">>)]

InitRange ==
    /\ InitCache /\ maxSize = 1
    /\ \E r \in SeqsUpTo(RangeChars, MaxRangeLen) :
          fx = [op |-> "ExtractFormulasFromRange", pc |-> "call",
                fe |-> NewFormulaExtractor(RangeSheet), arg |-> r]

CallExtractFormulasFromRange ==
    /\ fx.op = "ExtractFormulasFromRange" /\ fx.pc = "call"
    /\ LET r == ExtractFormulasFromRange(fx.fe, fx.arg)
       IN  fx' = [op |-> fx.op, pc |-> "done", fe |-> r.fe, arg |-> fx.arg,
                  err |-> r.err, formulas |-> r.formulas]
    /\ UNCHANGED <<cacheVars, mutex, nextHandle, now, currentSheet, crashed,
                   proc, ticker, histVars>>

NextRange == CallExtractFormulasFromRange

SpecRange == InitRange /\ [][NextRange]_vars

\* ------------------------------------------- findColumnHeader on a sheet
\* The sheet has a padded header, a second header and a cell that is a
\* number or blank, each in any row or absent (row 0); the header search is
\* run for a cell, and once more for the same cell on the filled cache.
MaxRow == 12
NumCols == 2
HeaderText == <<" ", "A", " ", "B", " ">>
SecondText == <<"B">>
FillerTexts == {<<" ", "1", "2">>, <<" ", " ">>}

HeaderSheet(hc, hr, sr, fr, ft) ==
    LET at == [p \in {<<1, fr>>, <<1, sr>>, <<hc, hr>>} \ {<<c, 0>> : c \in 1..NumCols} |->
                  IF p = <<1, fr>> THEN ft
                  ELSE IF p = <<1, sr>> THEN SecondText
                  ELSE HeaderText]
    IN  [value |-> at, formula |-> EmptyMap]

InitHeader ==
    /\ InitCache /\ maxSize = 1
    /\ \E hc \in 1..NumCols, hr \in 0..MaxRow, sr \in 0..MaxRow, fr \in 0..MaxRow,
          ft \in FillerTexts, col \in 1..NumCols, row \in 1..MaxRow :
          fx = [op |-> "findColumnHeader", pc |-> "call",
                fe |-> NewFormulaExtractor(HeaderSheet(hc, hr, sr, fr, ft)),
                arg |-> [col |-> col, row |-> row], header |-> <<>>]

CallFindColumnHeader ==
    /\ fx.op = "findColumnHeader" /\ fx.pc = "call"
    /\ LET r == findColumnHeader(fx.fe, fx.arg.col, fx.arg.row)
       IN  fx' = [fx EXCEPT !.pc = "done", !.fe = r.fe, !.header = r.header]
    /\ UNCHANGED <<cacheVars, mutex, nextHandle, now, currentSheet, crashed,
                   proc, ticker, histVars>>

CallFindColumnHeaderAgain ==
    /\ fx.op = "findColumnHeader" /\ fx.pc = "done"
    /\ LET r == findColumnHeader(fx.fe, fx.arg.col, fx.arg.row)
       IN  fx' = [fx EXCEPT !.pc = "cached", !.fe = r.fe, !.header = r.header]
    /\ UNCHANGED <<cacheVars, mutex, nextHandle, now, currentSheet, crashed,
                   proc, ticker, histVars>>

NextHeader == CallFindColumnHeader \/ CallFindColumnHeaderAgain

SpecHeader == InitHeader /\ [][NextHeader]_vars

\* ---------------------------------------------- getCellLabel on a sheet
\* getCellLabel(sheetName, cellName): the coordinates of the name, then the
\* two searches
LabelAt(fe, at) ==
    IF at.err THEN [header |-> <<>>, fe |-> fe]
    ELSE getCellLabel(fe, at.col, at.row)

getCellLabelByName(fe, cellName) == LabelAt(fe, CellNameToCoordinates(cellName))

\* The sheet has a cell in row 1 (above the cells asked for) and two cells in
\* row 2, each in one of some columns or absent (column 0); the cells asked
\* for are in columns A, B, AA (27) and AB (28), or have no valid name.
CellNames ==
    {<<"A", "A", "2">>, <<"A", "B", "2">>, <<"B", "2">>, <<"A", "1">>,
     <<"2", "A">>, <<"A", "0">>, <<"A", "A">>, <<>>}
UpCols == {0, 2, 27, 28}
UpTexts == {<<" ", "A", " ">>, <<"1">>, <<" ">>}
LeftCols == {0, 1, 16, 17, 18, 26}
LeftTexts == {<<"B">>, <<"2">>}
NearCols == {0, 26, 27}
NearText == <<"A", "B">>

LabelSheet(uc, ut, lc, lt, nc) ==
    LET at == [p \in {<<uc, 1>>, <<lc, 2>>, <<nc, 2>>} \ {<<0, 1>>, <<0, 2>>} |->
                  IF p = <<uc, 1>> THEN ut
                  ELSE IF p = <<lc, 2>> THEN lt
                  ELSE NearText]
    IN  [value |-> at, formula |-> EmptyMap]

InitLabel ==
    /\ InitCache /\ maxSize = 1
    /\ \E uc \in UpCols, ut \in UpTexts, lc \in LeftCols, lt \in LeftTexts,
          nc \in NearCols, name \in CellNames :
          fx = [op |-> "getCellLabel", pc |-> "call",
                fe |-> NewFormulaExtractor(LabelSheet(uc, ut, lc, lt, nc)),
                arg |-> name, header |-> <<>>]

CallGetCellLabel ==
    /\ fx.op = "getCellLabel" /\ fx.pc = "call"
    /\ LET r == getCellLabelByName(fx.fe, fx.arg)
       IN  fx' = [fx EXCEPT !.pc = "done", !.fe = r.fe, !.header = r.header]
    /\ UNCHANGED <<cacheVars, mutex, nextHandle, now, currentSheet, crashed,
                   proc, ticker, histVars>>

NextLabel == CallGetCellLabel

SpecLabel == InitLabel /\ [][NextLabel]_vars

\* ------------------------------- header lookups one after the other
\* One extractor serves any sequence of findColumnHeader and findRowHeader
\* calls for some cells of a sheet that does not change. The sheet has up to
\* three cells: B1 and K1, above two of the cells asked for, and A2, left of
\* them and above the third.
LookupCells == {<<2, 2>>, <<11, 2>>, <<1, 12>>, <<1, 2>>}
Directions == {"column", "row"}

LookupSheet(b1, k1, a2) ==
    LET texts == (<<2, 1>> :> b1) @@ (<<11, 1>> :> k1) @@ (<<1, 2>> :> a2)
        at == [p \in {q \in DOMAIN texts : texts[q] # <<>>} |-> texts[p]]
    IN  [value |-> at, formula |-> EmptyMap]

FindHeader(fe, d, col, row) ==
    IF d = "column" THEN findColumnHeader(fe, col, row)
    ELSE findRowHeader(fe, col, row)

InitLookups ==
    /\ InitCache /\ maxSize = 1
    /\ \E b1 \in {<<>>, <<"A">>}, k1 \in {<<>>, <<" ", "A", "B">>},
          a2 \in {<<>>, <<"B">>, <<"1">>} :
          fx = [op |-> "lookups", fe |-> NewFormulaExtractor(LookupSheet(b1, k1, a2)),
                seen |-> {}, call |-> <<>>, header |-> <<>>]

CallFindHeader(d) ==
    /\ fx.op = "lookups"
    /\ \E at \in LookupCells :
          LET r == FindHeader(fx.fe, d, at[1], at[2])
          IN  fx' = [fx EXCEPT !.fe = r.fe, !.header = r.header,
                               !.call = <<d, at[1], at[2]>>,
                               !.seen = @ \cup {<<d, at[1], at[2]>>}]
    /\ UNCHANGED <<cacheVars, mutex, nextHandle, now, currentSheet, crashed,
                   proc, ticker, histVars>>

NextLookups == CallFindHeader("column") \/ CallFindHeader("row")

SpecLookups == InitLookups /\ [][NextLookups]_vars

\* ------------------------------------------ FileCache.Put on a full cache
\* Put holds fc.mutex from its first statement to its return: it is applied
\* here, as one step, to every cache of up to NumKeys entries in every
\* recency order (the cache of path k holds handle k in list element k).
DistinctSeqs(S) ==
    {q \in UNION {[1..n -> S] : n \in 0..Cardinality(S)} :
        \A i, j \in 1..Len(q) : i # j => q[i] # q[j]}

CacheOf(order, e) ==
    [cache |-> [k \in {order[i] : i \in 1..Len(order)} |->
                   [file |-> ((k - 1) % MaxHandles) + 1, expireAt |-> e, listNode |-> k]],
     lruList |-> [i \in 1..Len(order) |-> [node |-> order[i], Value |-> order[i]]],
     closeCount |-> [h \in Handles |-> 0]]

InitPut ==
    /\ InitCache /\ maxSize = 1
    /\ \E order \in DistinctSeqs(Keys), e \in 0..MaxTime, max \in 1..NumKeys,
          k \in Keys, h \in Handles, t \in 0..MaxTime :
          /\ Len(order) <= max
          /\ fx = [op |-> "Put", pc |-> "call", c |-> CacheOf(order, e),
                   maxSize |-> max, key |-> k, file |-> h, now |-> t]

CallPutOp ==
    /\ fx.op = "Put" /\ fx.pc = "call"
    /\ fx' = [fx EXCEPT !.pc = "done",
                        !.c = PutOp(fx.c, fx.maxSize, fx.key, fx.file, fx.now)]
    /\ UNCHANGED <<cacheVars, mutex, nextHandle, now, currentSheet, crashed,
                   proc, ticker, histVars>>

NextPut == CallPutOp

SpecPut == InitPut /\ [][NextPut]_vars

\* Put, step by step, on a cache of any capacity that NewFileCache takes:
\* config.MaxSize is stored as it is, also when it is 0 or negative. The
\* calls follow each other; iterations counts the turns of the eviction
\* loop of the call, up to MaxSpin. The capacities go down to -MaxNegCap.
MaxNegCap == 1
MaxPuts == 3
MaxSpin == 2

NewFileCache(max) ==
    [op |-> "PutSteps", pc |-> "idle", maxSize |-> max, locked |-> FALSE,
     c |-> [cache |-> EmptyMap, lruList |-> <<>>, closeCount |-> [h \in Handles |-> 0]],
     puts |-> 0, iterations |-> 0]

InitEvict ==
    /\ InitCache /\ maxSize = 1
    /\ \E max \in (0 - MaxNegCap)..MaxCap : fx = NewFileCache(max)

\* Put up to its loop: an entry that exists is updated and Put returns; a
\* new entry is put in front and the loop begins, with the lock held
PutInsert(k, h) ==
    /\ fx.op = "PutSteps" /\ fx.pc = "idle" /\ fx.puts < MaxPuts
    /\ IF k \in DOMAIN fx.c.cache
       THEN fx' = [fx EXCEPT !.puts = @ + 1,
                             !.c = [@ EXCEPT !.cache[k].file = h,
                                             !.cache[k].expireAt = DefaultTTL,
                                             !.lruList = MoveToFront(@, fx.c.cache[k].listNode)]]
       ELSE LET node == FreshNode(fx.c.lruList)
                entry == [file |-> h, expireAt |-> DefaultTTL, listNode |-> node]
            IN  fx' = [fx EXCEPT !.puts = @ + 1, !.pc = "evict", !.locked = TRUE,
                                 !.iterations = 0,
                                 !.c = [@ EXCEPT !.cache = MapSet(@, k, entry),
                                                 !.lruList = PushFront(@, k)]]
    /\ UNCHANGED <<cacheVars, mutex, nextHandle, now, currentSheet, crashed,
                   proc, ticker, histVars>>

\* one turn of the loop: for fc.lruList.Len() > fc.maxSize { fc.evictOldest() }
PutEvict ==
    /\ fx.op = "PutSteps" /\ fx.pc = "evict"
    /\ Len(fx.c.lruList) > fx.maxSize
    /\ fx' = [fx EXCEPT !.c = evictOldest(@),
                        !.iterations = IF @ < MaxSpin THEN @ + 1 ELSE @]
    /\ UNCHANGED <<cacheVars, mutex, nextHandle, now, currentSheet, crashed,
                   proc, ticker, histVars>>

\* the end of the loop, and the deferred Unlock
PutReturn ==
    /\ fx.op = "PutSteps" /\ fx.pc = "evict"
    /\ ~(Len(fx.c.lruList) > fx.maxSize)
    /\ fx' = [fx EXCEPT !.pc = "idle", !.locked = FALSE]
    /\ UNCHANGED <<cacheVars, mutex, nextHandle, now, currentSheet, crashed,
                   proc, ticker, histVars>>

NextEvict ==
    \/ \E k \in Keys, h \in Handles : PutInsert(k, h)
    \/ PutEvict
    \/ PutReturn

SpecEvict == InitEvict /\ [][NextEvict]_vars

\* ------------------------------------------------------- GetCacheConfig
\* The environment gives each variable a string or nothing; a duration is
\* counted in minutes.
Unset == <<"unset">>
EnvChars == {"-", "+", "0", "1", "a"}
MaxEnvLen == 3
EnvValues == SeqsUpTo(EnvChars, MaxEnvLen) \cup {Unset}

\* os.Getenv: the empty string for a variable that is not set
Getenv(env, name) == IF env[name] = Unset THEN <<>> ELSE env[name]

\* strconv.Atoi: an optional sign and one or more decimal digits
StrconvAtoi(s) ==
    LET signed == s # <<>> /\ s[1] \in {"+", "-"}
        digits == IF signed THEN Tail(s) ELSE s
        ok == digits # <<>> /\ \A i \in 1..Len(digits) : digits[i] \in Digits
    IN  IF ~ok THEN [err |-> TRUE, val |-> 0]
        ELSE [err |-> FALSE,
              val |-> IF signed /\ s[1] = "-" THEN 0 - Atoi(digits) ELSE Atoi(digits)]

DefaultMaxSize == 10
DefaultTTLMinutes == 5

\* GetCacheConfig that takes 0 for an override
GetCacheConfigNonNegative(env) ==
    LET maxSizeStr == Getenv(env, "EXCEL_CACHE_MAX_SIZE")
        ttlStr == Getenv(env, "EXCEL_CACHE_TTL_MINUTES")
        size == StrconvAtoi(maxSizeStr)
        ttlMinutes == StrconvAtoi(ttlStr)
    IN  [MaxSize |-> IF maxSizeStr # <<>> /\ ~size.err /\ size.val >= 0
                     THEN size.val ELSE DefaultMaxSize,
         DefaultTTL |-> IF ttlStr # <<>> /\ ~ttlMinutes.err /\ ttlMinutes.val >= 0
                        THEN ttlMinutes.val ELSE DefaultTTLMinutes]

GetCacheConfig(env) ==
    LET maxSizeStr == Getenv(env, "EXCEL_CACHE_MAX_SIZE")
        ttlStr == Getenv(env, "EXCEL_CACHE_TTL_MINUTES")
        size == StrconvAtoi(maxSizeStr)
        ttlMinutes == StrconvAtoi(ttlStr)
    IN  [MaxSize |-> IF maxSizeStr # <<>> /\ ~size.err /\ size.val > 0
                     THEN size.val ELSE DefaultMaxSize,
         DefaultTTL |-> IF ttlStr # <<>> /\ ~ttlMinutes.err /\ ttlMinutes.val > 0
                        THEN ttlMinutes.val ELSE DefaultTTLMinutes]

InitConfig ==
    /\ InitCache /\ maxSize = 1
    /\ \E size \in EnvValues, ttl \in EnvValues :
          fx = [op |-> "GetCacheConfig", pc |-> "call",
                env |-> [EXCEL_CACHE_MAX_SIZE |-> size,
                         EXCEL_CACHE_TTL_MINUTES |-> ttl]]

CallGetCacheConfig ==
    /\ fx.op = "GetCacheConfig" /\ fx.pc = "call"
    /\ fx' = [op |-> fx.op, pc |-> "done", env |-> fx.env,
              config |-> GetCacheConfig(fx.env)]
    /\ UNCHANGED <<cacheVars, mutex, nextHandle, now, currentSheet, crashed,
                   proc, ticker, histVars>>

NextConfig == CallGetCacheConfig

SpecConfig == InitConfig /\ [][NextConfig]_vars

\* ------------------------------------------------------ translateFormula
\* Sheet1 of the workbooks: B1 "Age", B2 30, C2 = B2 * 2
ExampleSheet ==
    [value |-> (<<2, 1>> :> <<"A", "g", "e">>) @@ (<<2, 2>> :> <<"3", "0">>)
               @@ (<<3, 2>> :> <<"6", "0">>),
     formula |-> (<<3, 2>> :> <<"=", "B", "2", "*", "2">>)]

MaxFormulaLen == 5
FormulaChars == {"=", "$", "A", "B", "1", "2", "*"}

InitTranslate ==
    /\ InitCache /\ maxSize = 1
    /\ \E f \in SeqsUpTo(FormulaChars, MaxFormulaLen), sheet \in {ExampleSheet, RangeSheet} :
          fx = [op |-> "translateFormula", pc |-> "call",
                fe |-> NewFormulaExtractor(sheet), arg |-> f, text |-> <<>>]

CallTranslateFormula ==
    /\ fx.op = "translateFormula" /\ fx.pc = "call"
    /\ LET r == translateFormula(fx.fe, fx.arg)
       IN  fx' = [fx EXCEPT !.pc = "done", !.fe = r.fe, !.text = r.text]
    /\ UNCHANGED <<cacheVars, mutex, nextHandle, now, currentSheet, crashed,
                   proc, ticker, histVars>>

NextTranslate == CallTranslateFormula

SpecTranslate == InitTranslate /\ [][NextTranslate]_vars

\* ------------------------------------------------ Manager.ExplainFormula
\* Sheet2 of the workbooks: A1 "Product", B1 "Price", B2 = 1 * 2
SecondSheet ==
    [value |-> (<<1, 1>> :> <<"P", "r", "o", "d", "u", "c", "t">>)
               @@ (<<2, 1>> :> <<"P", "r", "i", "c", "e">>) @@ (<<2, 2>> :> <<"2">>),
     formula |-> (<<2, 2>> :> <<"=", "1", "*", "2">>)]

\* the sheets of the workbook behind a path, by name
BookOf(k) ==
    IF k = EmptyBook THEN [n \in {} |-> ExampleSheet]
    ELSE ("Sheet1" :> ExampleSheet) @@ ("Sheet2" :> SecondSheet)

\* excelize.File.GetCellFormula and GetCellValue by sheet and cell name: an
\* error for a sheet that does not exist and for a name that is no cell
FileGetCellFormula(book, sheetName, cell) ==
    LET at == CellNameToCoordinates(cell)
    IN  IF sheetName \notin DOMAIN book \/ at.err THEN [err |-> TRUE, text |-> <<>>]
        ELSE [err |-> FALSE, text |-> GetCellFormula(book[sheetName], at.col, at.row)]

FileGetCellValue(book, sheetName, cell) ==
    LET at == CellNameToCoordinates(cell)
    IN  IF sheetName \notin DOMAIN book \/ at.err THEN [err |-> TRUE, text |-> <<>>]
        ELSE [err |-> FALSE, text |-> GetCellValue(book[sheetName], at.col, at.row)]

CellArgs == {<<"C", "2">>, <<"B", "2">>, <<"2", "C">>}
ExplainSheetArgs == {"", "Sheet1", "Sheet2", "NonExistentSheet"}

\* ExplainFormula that returns a record for a cell without formula
ExplainFormulaAny(m, k, cell, sheetName) ==
    LET cur == IF sheetName = "" THEN GetCurrentSheet(m, k)
               ELSE [sheet |-> sheetName, err |-> ""]
        formula == FileGetCellFormula(BookOf(k), cur.sheet, cell)
        at == CellNameToCoordinates(cell)
        extractor == NewFormulaExtractor(BookOf(k)[cur.sheet])
        tr == translateFormula(extractor, formula.text)
    IN  IF cur.err # "" THEN [err |-> cur.err]
        ELSE IF formula.err THEN [err |-> "failed to get cell formula"]
        ELSE [err |-> "",
              info |-> [Sheet |-> cur.sheet, Cell |-> cell, Formula |-> formula.text,
                        Value |-> FileGetCellValue(BookOf(k), cur.sheet, cell).text,
                        TranslatedFormula |-> tr.text,
                        Label |-> getCellLabel(tr.fe, at.col, at.row).header]]

\* ExplainFormula after its OpenFile returned the file
ExplainFormula(m, k, cell, sheetName) ==
    LET cur == IF sheetName = "" THEN GetCurrentSheet(m, k)
               ELSE [sheet |-> sheetName, err |-> ""]
        formula == FileGetCellFormula(BookOf(k), cur.sheet, cell)
        at == CellNameToCoordinates(cell)
        extractor == NewFormulaExtractor(BookOf(k)[cur.sheet])
        tr == translateFormula(extractor, formula.text)
    IN  IF cur.err # "" THEN [err |-> cur.err]
        ELSE IF formula.err THEN [err |-> "failed to get cell formula"]
        ELSE IF formula.text = <<>> THEN [err |-> "cell does not contain a formula"]
        ELSE [err |-> "",
              info |-> [Sheet |-> cur.sheet, Cell |-> cell, Formula |-> formula.text,
                        Value |-> FileGetCellValue(BookOf(k), cur.sheet, cell).text,
                        TranslatedFormula |-> tr.text,
                        Label |-> getCellLabel(tr.fe, at.col, at.row).header]]

\* m.OpenFile(filePath) first, as every call of the Manager
CallExplainFormula(t, k, cell, sheetName, ret) ==
    /\ At(t, "idle") /\ CanRLock
    /\ RLock(t)
    /\ Set(t, [IdleProc EXCEPT !.pc = "get_check", !.op = "ExplainFormula",
                               !.key = k, !.cell = cell, !.sheet = sheetName,
                               !.stack = <<"open_after_get", "explain_body", ret>>])
    /\ UNCHANGED <<fx, cacheVars, nextHandle, now, currentSheet, crashed, ticker,
                   lastSel, held, lastPut, lastFile, useOrder>>

\* the rest of ExplainFormula: it reads m.currentSheet and the file
ExplainBody(t, p) ==
    /\ At(t, "explain_body")
    /\ LET r == ExplainFormula(currentSheet, p.key, p.cell, p.sheet)
       IN  Set(t, IF r.err = "" THEN Return([p EXCEPT !.info = r.info])
                  ELSE Fail(p, r.err))
    /\ UNCHANGED <<fx, cacheVars, mutex, nextHandle, now, currentSheet, crashed,
                   ticker, lastSel, held, lastPut, lastFile, useOrder>>

NextExplain ==
    \/ ManagerCalls({1}, {"Sheet2"}, "done")
    \/ \E k \in Paths, cell \in CellArgs, sheetName \in ExplainSheetArgs :
          CallExplainFormula(1, k, cell, sheetName, "done")
    \/ ExplainBody(1, proc[1])
    \/ Finish(1)
    \/ TickerFire
    \/ Tick

SpecExplain == Init /\ [][NextExplain]_vars

\* -------------------------------------------------- Manager.GetSheetStats
\* The statistics are computed from file.GetRows(sheetName): the rows as
\* sequences of cell texts, without the empty cells at the end of a row and
\* without the empty rows at the end of the sheet.
MaxStatRows == 3
MaxStatCols == 3
StatTexts == {<<>>, <<" ">>, <<"7">>}
StatRows == {row \in SeqsUpTo(StatTexts, MaxStatCols) :
                row = <<>> \/ row[Len(row)] # <<>>}
StatSheets == {rows \in SeqsUpTo(StatRows, MaxStatRows) :
                  rows = <<>> \/ rows[Len(rows)] # <<>>}

\* excelize.ColumnNumberToName for the first 26 columns
ColumnNumberToName(n) ==
    IF n \in 1..26
    THEN <<"A", "B", "C", "D", "E", "F", "G", "H", "I", "J", "K", "L", "M", "N",
           "O", "P", "Q", "R", "S", "T", "U", "V", "W", "X", "Y", "Z">>[n]
    ELSE ""

\* strings.ToLower, for the letters of the texts
UpperLetters == <<"A", "E", "F", "L", "R", "S", "T", "U">>
LowerLetters == <<"a", "e", "f", "l", "r", "s", "t", "u">>
LowerOf(c) ==
    IF \E i \in 1..Len(UpperLetters) : UpperLetters[i] = c
    THEN LowerLetters[CHOOSE i \in 1..Len(UpperLetters) : UpperLetters[i] = c]
    ELSE c
ToLower(s) == [i \in 1..Len(s) |-> LowerOf(s[i])]

\* strings.Contains(s, c) for a text c of one character
ContainsChar(s, c) == \E i \in 1..Len(s) : s[i] = c

\* a text without its leading sign, if it has one
Unsigned(s) == IF s # <<>> /\ s[1] \in {"+", "-"} THEN Tail(s) ELSE s

\* err == nil of strconv.ParseInt(s, 10, 64): an optional sign and one
\* decimal digit at least. The numerals of the texts have eight digits at
\* most, so that none is out of the range of 64 bits.
AllDigits(s) == s # <<>> /\ \A i \in 1..Len(s) : s[i] \in Digits
ParseIntOk(s) == AllDigits(Unsigned(s))

\* the mantissa of a decimal floating-point numeral: digits with at most
\* one point among them, and one digit at least
IsMantissa(m) ==
    /\ \A i \in 1..Len(m) : m[i] \in Digits \cup {"."}
    /\ \E i \in 1..Len(m) : m[i] \in Digits
    /\ Cardinality({i \in 1..Len(m) : m[i] = "."}) <= 1

\* err == nil of strconv.ParseFloat(s, 64) for the texts of the decimal
\* digits, the signs, the point and letters other than those of Inf, NaN
\* and of the hexadecimal numerals: an optional sign, a mantissa and an
\* optional exponent, which is e or E, an optional sign and one digit at
\* least. The exponents of the texts have two digits at most, so that no
\* value is out of range.
ParseFloatOk(s) ==
    LET u == Unsigned(s)
        es == {i \in 1..Len(u) : u[i] \in {"e", "E"}}
    IN  IF es = {} THEN IsMantissa(u)
        ELSE LET e == CHOOSE i \in es : \A j \in es : i <= j
             IN  /\ IsMantissa(SubSeq(u, 1, e - 1))
                 /\ AllDigits(Unsigned(SubSeq(u, e + 1, Len(u))))

BoolWords == {<<"t", "r", "u", "e">>, <<"f", "a", "l", "s", "e">>}
DateLen == 8

\* classifyDataType with the date rule tried before the numbers
classifyDataTypeDateFirst(value) ==
    LET trimmed == TrimSpace(value)
    IN  IF trimmed = <<>> THEN "empty"
        ELSE IF Len(trimmed) >= DateLen
                /\ (ContainsChar(trimmed, "/") \/ ContainsChar(trimmed, "-")) THEN "date"
        ELSE IF ParseIntOk(trimmed) THEN "integer"
        ELSE IF ParseFloatOk(trimmed) THEN "number"
        ELSE IF ToLower(trimmed) \in BoolWords THEN "boolean"
        ELSE "text"

classifyDataType(value) ==
    LET trimmed == TrimSpace(value)
    IN  IF trimmed = <<>> THEN "empty"
        ELSE IF ParseIntOk(trimmed) THEN "integer"
        ELSE IF ParseFloatOk(trimmed) THEN "number"
        ELSE IF ToLower(trimmed) \in BoolWords THEN "boolean"
        ELSE IF Len(trimmed) >= DateLen
                /\ (ContainsChar(trimmed, "/") \/ ContainsChar(trimmed, "-")) THEN "date"
        ELSE "text"

DataTags == {"empty", "integer", "number", "boolean", "date", "text"}

\* the body of the loop over the rows, for row rowIdx (from 0), on the
\* locals and the statistics st gathered so far
StatsRow(st, rowIdx, row) ==
    LET data == {i \in 1..Len(row) : TrimSpace(row[i]) # <<>>}
        hasData == data # {}
        rowFirstCol == IF hasData THEN (CHOOSE i \in data : \A j \in data : i <= j) - 1 ELSE -1
        rowLastCol == IF hasData THEN (CHOOSE i \in data : \A j \in data : j <= i) - 1 ELSE -1
    IN  [st EXCEPT
           !.maxColumns = IF Len(row) > @ THEN Len(row) ELSE @,
           !.NonEmptyCells = @ + Cardinality(data),
           !.DataTypes = [tag \in DataTags |->
                             @[tag] + Cardinality({i \in data : classifyDataType(row[i]) = tag})],
           !.firstDataRowFound = @ \/ hasData,
           !.FirstDataRow = IF hasData /\ ~st.firstDataRowFound THEN rowIdx + 1 ELSE @,
           !.LastDataRow = IF hasData THEN rowIdx + 1 ELSE @,
           !.NonEmptyRows = IF hasData THEN @ + 1 ELSE @,
           !.firstDataCol = IF hasData /\ (@ = 0 \/ (rowFirstCol >= 0 /\ rowFirstCol < @))
                            THEN rowFirstCol ELSE @,
           !.lastDataCol = IF hasData /\ rowLastCol > @ THEN rowLastCol ELSE @]

RECURSIVE StatsLoop(_, _, _)
StatsLoop(st, rows, rowIdx) ==
    IF rowIdx >= Len(rows) THEN st
    ELSE StatsLoop(StatsRow(st, rowIdx, rows[rowIdx + 1]), rows, rowIdx + 1)

\* GetSheetStats after OpenFile, GetCurrentSheet and GetRows
GetSheetStats(rows) ==
    LET st == StatsLoop([maxColumns |-> 0, NonEmptyCells |-> 0,
                         DataTypes |-> [tag \in DataTags |-> 0],
                         firstDataRowFound |-> FALSE, FirstDataRow |-> 0,
                         LastDataRow |-> 0, NonEmptyRows |-> 0,
                         firstDataCol |-> 0, lastDataCol |-> 0], rows, 0)
    IN  [RowCount |-> Len(rows),
         ColumnCount |-> st.maxColumns,
         NonEmptyRows |-> st.NonEmptyRows,
         NonEmptyCells |-> st.NonEmptyCells,
         DataTypes |-> [tag \in {g \in DataTags : st.DataTypes[g] > 0} |-> st.DataTypes[tag]],
         FirstDataRow |-> st.FirstDataRow,
         LastDataRow |-> st.LastDataRow,
         FirstDataCol |-> IF Len(rows) = 0 THEN ""
                          ELSE IF st.firstDataCol >= 0 THEN ColumnNumberToName(st.firstDataCol + 1)
                          ELSE "",
         LastDataCol |-> IF Len(rows) = 0 THEN ""
                         ELSE IF st.lastDataCol >= 0 THEN ColumnNumberToName(st.lastDataCol + 1)
                         ELSE ""]

InitStats ==
    /\ InitCache /\ maxSize = 1
    /\ \E rows \in StatSheets :
          fx = [op |-> "GetSheetStats", pc |-> "call", rows |-> rows]

CallGetSheetStats ==
    /\ fx.op = "GetSheetStats" /\ fx.pc = "call"
    /\ fx' = [op |-> fx.op, pc |-> "done", rows |-> fx.rows,
              stats |-> GetSheetStats(fx.rows)]
    /\ UNCHANGED <<cacheVars, mutex, nextHandle, now, currentSheet, crashed,
                   proc, ticker, histVars>>

NextStats == CallGetSheetStats

SpecStats == InitStats /\ [][NextStats]_vars

\* GetSheetStats of a sheet of one row of two cells at most: a text made of
\* a core of MaxCoreLen characters at most, after one of the prefixes that
\* make it as long as a date, or one of the words, and a second cell
MaxCoreLen == 3
CoreChars == {"1", "-", ".", "/", "e", "a", " "}
CorePrefixes == {<<>>, <<"1", "1", "1", "1", "1">>, <<"-", "1", "1", "1", "1">>,
                 <<"a", "a", "a", "a", "a">>}
WordTexts == {<<"t", "r", "u", "e">>, <<"T", "R", "U", "E">>, <<"T", "r", "u", "e">>,
              <<"f", "a", "l", "s", "e">>, <<"F", "A", "L", "S", "E">>,
              <<" ", "t", "r", "u", "e", " ">>, <<"t", "r", "u">>,
              <<"t", "r", "u", "e", "-", "f", "a", "l", "s", "e">>}
ClassifyTexts == {prefix \o core : prefix \in CorePrefixes,
                                   core \in SeqsUpTo(CoreChars, MaxCoreLen)} \cup WordTexts
SecondTexts == {<<" ">>, <<"7">>, <<"t", "r", "u", "e">>}

InitClassify ==
    /\ InitCache /\ maxSize = 1
    /\ \E value \in ClassifyTexts :
          \/ /\ value # <<>>
             /\ fx = [op |-> "GetSheetStats", pc |-> "call", rows |-> <<<<value>>>>]
          \/ \E second \in SecondTexts :
                fx = [op |-> "GetSheetStats", pc |-> "call", rows |-> <<<<value, second>>>>]

SpecClassify == InitClassify /\ [][NextStats]_vars

\* =========================================== pkg/filesystem: Handler
\* Paths are strings of characters; all of them are resolved to rooted
\* paths, on a system whose separator is "/".
MaxPathLen == 6
PathChars == {"/", ".", "a", "b"}
InputPaths == SeqsUpTo(PathChars, MaxPathLen)

\* the directories and the files of the file system
Dirs == {<<"/">>, <<"/", "a">>, <<"/", "a", "/", "a">>, <<"/", "b">>, <<"/", "a", "b">>}
Files == {<<"/", "a", "/", "b">>, <<"/", "a", "/", "a", "/", "b">>}
\* the allowed roots a Handler is made with
RootLists == {<< <<"/", "a">> >>, << <<"/", "a", "/", "a">>, <<"/", "b">> >>}

\* filepath.Clean of a rooted path: the elements that are not empty or ".",
\* each ".." taking the element before it away, and none at the root
RECURSIVE CleanElements(_, _)
CleanElements(parts, out) ==
    IF parts = <<>> THEN out
    ELSE IF Head(parts) \in {<<>>, <<".">>} THEN CleanElements(Tail(parts), out)
    ELSE IF Head(parts) = <<".", ".">>
    THEN CleanElements(Tail(parts),
                       IF out = <<>> THEN out ELSE SubSeq(out, 1, Len(out) - 1))
    ELSE CleanElements(Tail(parts), Append(out, Head(parts)))

RECURSIVE JoinElements(_)
JoinElements(elems) ==
    IF elems = <<>> THEN <<>>
    ELSE <<"/">> \o Head(elems) \o JoinElements(Tail(elems))

Clean(path) ==
    LET elems == CleanElements(Split(path, "/"), <<>>)
    IN  IF elems = <<>> THEN <<"/">> ELSE JoinElements(elems)

IsAbs(path) == path # <<>> /\ path[1] = "/"
\* filepath.Join(dir, path) for a rooted dir
Join(dir, path) == Clean(dir \o <<"/">> \o path)
HasPrefix(s, prefix) == Len(prefix) <= Len(s) /\ SubSeq(s, 1, Len(prefix)) = prefix
HasSuffix(s, suffix) ==
    Len(suffix) <= Len(s) /\ SubSeq(s, Len(s) - Len(suffix) + 1, Len(s)) = suffix

\* NewHandler for roots that are clean, absolute, existing directories
NewHandler(allowedRoots) ==
    [allowedRoots |-> allowedRoots,
     rootPrefixes |-> [i \in 1..Len(allowedRoots) |->
                          IF HasSuffix(allowedRoots[i], <<"/">>) THEN allowedRoots[i]
                          ELSE allowedRoots[i] \o <<"/">>],
     currentWD |-> allowedRoots[1]]

\* a check that takes every path that starts with the text of a root
isPathAllowedByText(h, path) ==
    \E i \in 1..Len(h.allowedRoots) : HasPrefix(Clean(path), h.allowedRoots[i])

isPathAllowedOptimized(h, path) ==
    \/ \E i \in 1..Len(h.allowedRoots) : Clean(path) = h.allowedRoots[i]
    \/ \E i \in 1..Len(h.rootPrefixes) : HasPrefix(Clean(path), h.rootPrefixes[i])

\* resolvePath: filepath.Abs of a clean rooted path is the path itself
resolvePath(h, inputPath) ==
    LET resolvedPath == IF IsAbs(inputPath) THEN inputPath
                        ELSE Join(h.currentWD, inputPath)
        absPath == Clean(resolvedPath)
    IN  IF ~isPathAllowedOptimized(h, absPath)
        THEN [path |-> <<>>, err |-> "access denied: path outside allowed roots"]
        ELSE [path |-> absPath, err |-> ""]

\* a ChangeDirectory that sets the directory before it looks at it
ChangeDirectoryEarly(h, path) ==
    LET r == resolvePath(h, path)
    IN  IF r.err # "" THEN [h |-> h, err |-> r.err]
        ELSE IF r.path \notin Dirs \cup Files
        THEN [h |-> [h EXCEPT !.currentWD = r.path], err |-> "directory does not exist"]
        ELSE IF r.path \notin Dirs
        THEN [h |-> [h EXCEPT !.currentWD = r.path], err |-> "not a directory"]
        ELSE [h |-> [h EXCEPT !.currentWD = r.path], err |-> ""]

ChangeDirectory(h, path) ==
    LET r == resolvePath(h, path)
    IN  IF r.err # "" THEN [h |-> h, err |-> r.err]
        ELSE IF r.path \notin Dirs \cup Files THEN [h |-> h, err |-> "directory does not exist"]
        ELSE IF r.path \notin Dirs THEN [h |-> h, err |-> "not a directory"]
        ELSE [h |-> [h EXCEPT !.currentWD = r.path], err |-> ""]

\* ReadFile, GetFileInfo and ListDirectory: the error and the path they
\* went to the file system with
ReadFile(h, path) ==
    LET r == resolvePath(h, path)
    IN  IF r.err # "" THEN r
        ELSE IF r.path \notin Dirs \cup Files THEN [r EXCEPT !.err = "failed to open file"]
        ELSE IF r.path \in Dirs THEN [r EXCEPT !.err = "cannot read directory as file"]
        ELSE r

GetFileInfo(h, path) ==
    LET r == resolvePath(h, path)
    IN  IF r.err # "" THEN r
        ELSE IF r.path \notin Dirs \cup Files THEN [r EXCEPT !.err = "failed to get file info"]
        ELSE r

ListDirectory(h, path) ==
    LET r == IF path # <<>> THEN resolvePath(h, path)
             ELSE [path |-> h.currentWD, err |-> ""]
    IN  IF r.err # "" THEN r
        ELSE IF r.path \notin Dirs \cup Files THEN [r EXCEPT !.err = "failed to open directory"]
        ELSE IF r.path \notin Dirs THEN [r EXCEPT !.err = "failed to read directory entries"]
        ELSE r

InitHandler ==
    /\ InitCache /\ maxSize = 1
    /\ \E roots \in RootLists :
          fx = [op |-> "Handler", pc |-> "idle", h |-> NewHandler(roots)]

\* a call keeps its name, its argument, the directory it started in and
\* what it returned until the caller goes on
CallChangeDirectory ==
    /\ fx.op = "Handler" /\ fx.pc = "idle"
    /\ \E path \in InputPaths :
          LET r == ChangeDirectory(fx.h, path)
          IN  fx' = [op |-> fx.op, pc |-> "done", h |-> r.h,
                     call |-> "ChangeDirectory", arg |-> path,
                     wd |-> fx.h.currentWD, path |-> r.h.currentWD, err |-> r.err]
    /\ UNCHANGED <<cacheVars, mutex, nextHandle, now, currentSheet, crashed,
                   proc, ticker, histVars>>

CallRead(name) ==
    /\ fx.op = "Handler" /\ fx.pc = "idle"
    /\ \E path \in InputPaths :
          LET r == CASE name = "ReadFile" -> ReadFile(fx.h, path)
                     [] name = "GetFileInfo" -> GetFileInfo(fx.h, path)
                     [] name = "ListDirectory" -> ListDirectory(fx.h, path)
          IN  fx' = [op |-> fx.op, pc |-> "done", h |-> fx.h, call |-> name,
                     arg |-> path, wd |-> fx.h.currentWD, path |-> r.path,
                     err |-> r.err]
    /\ UNCHANGED <<cacheVars, mutex, nextHandle, now, currentSheet, crashed,
                   proc, ticker, histVars>>

HandlerReturn ==
    /\ fx.op = "Handler" /\ fx.pc = "done"
    /\ fx' = [op |-> fx.op, pc |-> "idle", h |-> fx.h]
    /\ UNCHANGED <<cacheVars, mutex, nextHandle, now, currentSheet, crashed,
                   proc, ticker, histVars>>

NextHandler ==
    \/ CallChangeDirectory
    \/ CallRead("ReadFile")
    \/ CallRead("GetFileInfo")
    \/ CallRead("ListDirectory")
    \/ HandlerReturn

SpecHandler == InitHandler /\ [][NextHandler]_vars

\* ======================================= Outlook manager: the supervisor
\* The manager's fields, the server processes and the goroutines of
\* pkg/outlook/manager.go.  Server processes are numbered in the order of
\* their start; cmd = NoProcess is a command without a started process.
\* isShutdown is read and written without synchronisation: each read and
\* each write is a step of its own, so a read sees the value before or
\* after a concurrent write.
MaxStarts == 3
ChanCap == 1
NoProcess == 0
ProcessIds == 1..MaxStarts

\* select { case restartChan <- true: default: }
TrySend(ch) == IF ch < ChanCap THEN ch + 1 ELSE ch

NoMonitor == [pc |-> "none", target |-> NoProcess]

\* NewManager: the first server is started and answers, its monitor
\* goroutine and the supervisor goroutine are started
InitSupervisor ==
    /\ InitCache /\ maxSize = 1
    /\ fx = [op |-> "Supervisor", isShutdown |-> FALSE, cancelled |-> FALSE,
             restartChan |-> 0, cmd |-> 1, alive |-> {1}, starts |-> 1,
             sup |-> "select", stop |-> "idle",
             mon |-> [p \in ProcessIds |->
                         IF p = 1 THEN [pc |-> "start", target |-> NoProcess]
                         ELSE NoMonitor],
             startedAfterStop |-> FALSE]

SupervisorStep(new) ==
    /\ fx' = new
    /\ UNCHANGED <<cacheVars, mutex, nextHandle, now, currentSheet, crashed,
                   proc, ticker, histVars>>

\* the server process exits on its own
ProcessExit ==
    /\ fx.op = "Supervisor"
    /\ \E p \in fx.alive : SupervisorStep([fx EXCEPT !.alive = @ \ {p}])

\* ---- monitorProcess
\* the goroutine reads m.cmd when it runs
monitorProcessStart(p) ==
    /\ fx.op = "Supervisor" /\ fx.mon[p].pc = "start"
    /\ SupervisorStep([fx EXCEPT !.mon[p] = [pc |-> "wait", target |-> fx.cmd]])

\* m.cmd.Wait() returns when the process is gone (at once when it never
\* started)
monitorProcessWait(p) ==
    /\ fx.op = "Supervisor" /\ fx.mon[p].pc = "wait"
    /\ fx.mon[p].target \notin fx.alive
    /\ SupervisorStep([fx EXCEPT !.mon[p].pc = "check"])

monitorCheck(f) == IF f.isShutdown THEN "done" ELSE "signal"

monitorProcessCheck(p) ==
    /\ fx.op = "Supervisor" /\ fx.mon[p].pc = "check"
    /\ SupervisorStep([fx EXCEPT !.mon[p].pc = monitorCheck(fx)])

monitorProcessSignal(p) ==
    /\ fx.op = "Supervisor" /\ fx.mon[p].pc = "signal"
    /\ SupervisorStep([fx EXCEPT !.mon[p].pc = "done",
                                 !.restartChan = TrySend(@)])

\* ---- supervisorLoop
\* case <-m.supervisorCtx.Done(): return
supervisorLoopDone ==
    /\ fx.op = "Supervisor" /\ fx.sup = "select" /\ fx.cancelled
    /\ SupervisorStep([fx EXCEPT !.sup = "returned"])

\* case <-m.restartChan:
supervisorLoopReceive ==
    /\ fx.op = "Supervisor" /\ fx.sup = "select" /\ fx.restartChan > 0
    /\ SupervisorStep([fx EXCEPT !.sup = "check", !.restartChan = @ - 1])

supervisorCheckAlways(f) == "sleep2"

\* if m.isShutdown { return }
supervisorCheck(f) == IF f.isShutdown THEN "returned" ELSE "sleep2"

supervisorLoopCheck ==
    /\ fx.op = "Supervisor" /\ fx.sup = "check"
    /\ SupervisorStep([fx EXCEPT !.sup = supervisorCheck(fx)])

\* time.Sleep(2 * time.Second) ends
supervisorLoopSleep ==
    /\ fx.op = "Supervisor" /\ fx.sup = "sleep2"
    /\ SupervisorStep([fx EXCEPT !.sup = "restart"])

\* restartPowerShellServer: kills the old process, then startPowerShellServer
\* (which may fail before or at cmd.Start) and waitForServer
RestartOutcomes == {"tempfail", "startfail", "waitfail", "ok"}

restartPowerShellServer(f, outcome) ==
    LET killed == f.alive \ {f.cmd}
        n == f.starts + 1
    IN  CASE outcome = "tempfail" ->
                [f EXCEPT !.alive = killed, !.sup = "sleep10"]
          [] outcome = "startfail" ->
                [f EXCEPT !.alive = killed, !.cmd = NoProcess, !.sup = "sleep10"]
          [] OTHER ->
                [f EXCEPT !.alive = killed \cup {n}, !.cmd = n, !.starts = n,
                          !.mon[n] = [pc |-> "start", target |-> NoProcess],
                          !.sup = IF outcome = "ok" THEN "select" ELSE "sleep10",
                          !.startedAfterStop = @ \/ f.stop = "done"]

supervisorLoopRestart ==
    /\ fx.op = "Supervisor" /\ fx.sup = "restart"
    /\ \E outcome \in RestartOutcomes :
          /\ outcome \in {"waitfail", "ok"} => fx.starts < MaxStarts
          /\ SupervisorStep(restartPowerShellServer(fx, outcome))

\* time.Sleep(10 * time.Second) ends
supervisorLoopSleepLonger ==
    /\ fx.op = "Supervisor" /\ fx.sup = "sleep10"
    /\ SupervisorStep([fx EXCEPT !.sup = "signal"])

supervisorLoopSignal ==
    /\ fx.op = "Supervisor" /\ fx.sup = "signal"
    /\ SupervisorStep([fx EXCEPT !.sup = "select", !.restartChan = TrySend(@)])

supervisorLoop ==
    \/ supervisorLoopDone
    \/ supervisorLoopReceive
    \/ supervisorLoopCheck
    \/ supervisorLoopSleep
    \/ supervisorLoopRestart
    \/ supervisorLoopSleepLonger
    \/ supervisorLoopSignal

\* ---- Stop
StopSetFlag ==
    /\ fx.op = "Supervisor" /\ fx.stop = "idle"
    /\ SupervisorStep([fx EXCEPT !.isShutdown = TRUE, !.stop = "cancel"])

StopCancel ==
    /\ fx.op = "Supervisor" /\ fx.stop = "cancel"
    /\ SupervisorStep([fx EXCEPT !.cancelled = TRUE, !.stop = "signal"])

\* the process m.cmd is interrupted, or killed; Stop returns
StopProcess ==
    /\ fx.op = "Supervisor" /\ fx.stop = "signal"
    /\ SupervisorStep([fx EXCEPT !.alive = @ \ {fx.cmd}, !.stop = "done"])

NextSupervisor ==
    \/ ProcessExit
    \/ \E p \in ProcessIds : monitorProcessStart(p)
    \/ \E p \in ProcessIds : monitorProcessWait(p)
    \/ \E p \in ProcessIds : monitorProcessCheck(p)
    \/ \E p \in ProcessIds : monitorProcessSignal(p)
    \/ supervisorLoop
    \/ StopSetFlag
    \/ StopCancel
    \/ StopProcess

SpecSupervisor == InitSupervisor /\ [][NextSupervisor]_vars

\* a goroutine that can run does run: a sleep ends, a restart attempt ends
\* (waitForServer gives up after 30 tries), a ready select is taken
SpecSupervisorLive == SpecSupervisor /\ WF_vars(supervisorLoop)

\* =================================================== claims on the cache
CachedFiles == {cache[k].file : k \in DOMAIN cache}
LockFree == mutex.writers = {} /\ mutex.readers = {}
NoPutInProgress == \A t \in Workers : proc[t].pc # "put_body"

\* the deadline of a path, by the history: its last Put plus the TTL
DeadlinePassed(k) == k \notin DOMAIN lastPut \/ now > lastPut[k] + DefaultTTL

\* C1: a Get that returns found = true returns a handle that is not closed
\* when Get returns, and a Get whose entry is gone when it re-checks under
\* the exclusive lock returns not-found.
C1_GetReturnsOpenHandle ==
    [][\A t \in Workers :
         (proc[t].pc = "get_promote" /\ proc'[t].pc # "get_promote") =>
             /\ proc'[t].found => closeCount'[proc'[t].file] = 0
             /\ proc[t].key \notin DOMAIN cache => ~proc'[t].found]_vars

\* C2: with maxSize >= 1, Size() <= maxSize whenever no Put is in progress.
C2_Capacity == NoPutInProgress => Size(cache) <= maxSize

\* a full cache of two entries after a third handle was put
C2_Witness ==
    /\ NoPutInProgress /\ maxSize = 2 /\ Size(cache) = 2
    /\ Cardinality(held) = 3
    /\ \E h \in held : h \notin CachedFiles /\ closeCount[h] = 1

\* C3: a Get that checks a path whose deadline (last Put plus TTL) has
\* passed returns not-found, whether or not CleanExpired has run; a hit does
\* not move the deadline.
C3_ExpiredIsNotFound ==
    [][\A t \in Workers :
         /\ (proc[t].pc = "get_check" /\ DeadlinePassed(proc[t].key)) =>
                (proc'[t].pc # "get_lock_hit" /\ ~proc'[t].found)
         /\ proc[t].pc \in {"get_lock_exp", "get_purge"} => ~proc'[t].found]_vars

\* a Get about to purge an entry that no sweep has removed, after an earlier
\* hit on the same cache
C3_Witness ==
    \E t \in Workers :
        /\ proc[t].pc = "get_purge"
        /\ proc[t].key \in DOMAIN cache
        /\ now > lastPut[proc[t].key] + DefaultTTL

\* C4: the entry a Put evicts is the one whose most recent successful Get
\* or Put is the oldest.
C4_EvictsLeastRecentlyUsed ==
    [][\A t \in Workers : \A k \in Keys :
         (proc[t].pc = "put_body" /\ k \in DOMAIN cache /\ k \notin DOMAIN cache')
             => k = useOrder[Len(useOrder)]]_vars

\* C7: every handle the cache has held is closed exactly once: never twice,
\* and once it has left the cache it is closed.
C7_ClosedExactlyOnce ==
    \A h \in held :
        /\ closeCount[h] <= 1
        /\ h \notin CachedFiles => closeCount[h] = 1

\* C9: with the lock free, the map's keys are the keys in the recency list,
\* each key is in the list once, and each entry's listNode is the list
\* element that carries the entry's key.
C9_MapMatchesList ==
    LockFree =>
        /\ DOMAIN cache = ListValues(lruList)
        /\ Cardinality(ListValues(lruList)) = Len(lruList)
        /\ Cardinality(ListNodes(lruList)) = Len(lruList)
        /\ \A k \in DOMAIN cache :
               /\ cache[k].listNode \in ListNodes(lruList)
               /\ ElemOf(lruList, cache[k].listNode).Value = k

\* two entries in the cache after an entry was removed and its node reused
C9_Witness ==
    /\ LockFree /\ Len(lruList) = 2
    /\ \E h \in held : closeCount[h] = 1
    /\ lruList[1].node < lruList[2].node

\* ================================================= claims on the Manager
\* C5: FlushCache is atomic for the other callers: no caller reads a
\* selection of the session-sheet map while a FlushCache has closed the
\* handles and not yet cleared the selections, and no caller finds a handle
\* cached that a FlushCache which cleared the selections should have closed.
C5_FlushIsAtomic ==
    [][\A t \in Workers : \A f \in Workers \ {t} :
         (/\ proc[f].pc = "flush_reset"
          /\ proc[t].pc = "current_read" /\ proc'[t].pc # "current_read")
             => proc[t].key \notin DOMAIN currentSheet]_vars

\* C6: when FlushCache has returned to a caller that is the only one, the
\* cache is empty, no path has a selection, and the count returned is the
\* number of keys the cache had when FlushCache was called.
C6_FlushEmptiesAndCounts ==
    \A t \in Workers :
        (proc[t].pc = "done" /\ proc[t].op = "FlushCache") =>
            /\ Size(cache) = 0 /\ lruList = <<>>
            /\ currentSheet = EmptyMap
            /\ proc[t].err = ""
            /\ proc[t].count = Cardinality(proc[t].before)

\* FlushCache has returned 2 after a call on a cache of two workbooks, one
\* of them with a selection
C6_Witness ==
    \E t \in Workers :
        /\ proc[t].pc = "done" /\ proc[t].op = "FlushCache"
        /\ proc[t].count = 2
        /\ proc[t].selBefore # EmptyMap
        /\ Cardinality({h \in held : closeCount[h] = 1}) = 2

\* C8: at every quiescent point (no call running) the paths with a
\* selection are paths present in the cache: eviction, expiry and flush
\* remove the selection with the handle.
C8_SelectionsFollowCache ==
    (\A t \in Workers : proc[t].pc = "idle") =>
        DOMAIN currentSheet \subseteq DOMAIN cache

\* C10: a goroutine reads the session-sheet map holding the cache's lock
\* (shared or exclusive) and writes it holding the exclusive lock, so no two
\* goroutines are in the map at once with one of them writing.
C10_MapAccessUnderLock ==
    [][/\ ~MapRace
       /\ \A t \in Workers :
            /\ (proc[t].pc = "current_read" /\ proc'[t].pc # "current_read")
                   => (HoldsRLock(t) \/ HoldsLock(t))
            /\ (proc[t].pc \in {"set_write", "flush_reset"}
                    /\ proc'[t].pc # proc[t].pc)
                   => HoldsLock(t)]_vars

\* ===================================== claims on the Manager's lifetime
\* C11: the cleanup task is cancelable: once Close has stopped the ticker,
\* the goroutine of the task has returned or still has a step to take (it
\* is not blocked for ever), and it starts no sweep.
C11_TickerIsCancelable ==
    ticker.stopped => (ticker.pc = "exited" \/ ENABLED TickerFire)

\* ================================================ claims on the selection
SheetNames(k) == {SheetsOf(k)[i] : i \in 1..Len(SheetsOf(k))}

\* C12: SetCurrentSheet records the selection only if the name is exactly
\* one of the workbook's sheet names; otherwise it fails with an error that
\* lists the sheet names and leaves every selection as it was.
C12_SetCurrentSheetValidates ==
    \A t \in Workers :
        (proc[t].pc = "done" /\ proc[t].op = "SetCurrentSheet") =>
            IF proc[t].err = ""
            THEN /\ proc[t].sheet \in SheetNames(proc[t].key)
                 /\ currentSheet = MapSet(proc[t].selBefore, proc[t].key,
                                          proc[t].sheet)
            ELSE /\ currentSheet = proc[t].selBefore
                 /\ \/ proc[t].err = "open failed"
                    \/ /\ proc[t].err = "sheet not found"
                       /\ proc[t].sheet \notin SheetNames(proc[t].key)
                       /\ proc[t].errSheets = SheetsOf(proc[t].key)

\* a name that differs from a sheet name only in case was refused, and the
\* selection made before is still there
C12_Witness ==
    \E t \in Workers :
        /\ proc[t].pc = "done" /\ proc[t].op = "SetCurrentSheet"
        /\ proc[t].sheet = "sheet2" /\ proc[t].err = "sheet not found"
        /\ proc[t].key \in DOMAIN currentSheet
        /\ currentSheet[proc[t].key] = "Sheet2"

\* C13: GetCurrentSheet returns the name of the path's most recent
\* successful SetCurrentSheet since the last flush, whatever was selected
\* for other paths; with none, the workbook's first sheet, and an error if
\* the workbook has no sheets.
C13_GetCurrentSheetResult ==
    \A t \in Workers :
        (/\ proc[t].pc = "done" /\ proc[t].op = "GetCurrentSheet"
         /\ proc[t].err # "open failed") =>
            IF proc[t].key \in DOMAIN lastSel
            THEN proc[t].err = "" /\ proc[t].sheet = lastSel[proc[t].key]
            ELSE IF SheetsOf(proc[t].key) = <<>>
                 THEN proc[t].err = "no sheets found in file"
                 ELSE proc[t].err = "" /\ proc[t].sheet = SheetsOf(proc[t].key)[1]

\* the selection comes back after the workbook was evicted and opened again
C13_Witness ==
    \E t \in Workers :
        /\ proc[t].pc = "done" /\ proc[t].op = "GetCurrentSheet"
        /\ proc[t].err = "" /\ proc[t].sheet = "Sheet2"
        /\ closeCount[1] = 1

\* the handle cached for a path whose deadline (its last Put plus the TTL)
\* has not passed
LiveFile(k) ==
    IF k \in DOMAIN cache /\ ~DeadlinePassed(k) THEN cache[k].file
    ELSE NoHandle

\* C14: an OpenFile that looks its path up while the entry is live returns
\* the handle that is cached; none of its steps opens a file, adds an entry
\* or removes one.
C14_OpenFileIdempotent ==
    [][\A t \in Workers :
         (proc[t].op = "OpenFile" /\ proc'[t] # proc[t]) =>
             /\ (proc[t].pc = "get_check" /\ LiveFile(proc[t].key) # NoHandle) =>
                    /\ proc'[t].pc = "get_lock_hit"
                    /\ proc'[t].file = LiveFile(proc[t].key)
                    /\ nextHandle' = nextHandle /\ cache' = cache
             /\ proc[t].pc \in {"get_lock_hit", "get_promote"} =>
                    /\ nextHandle' = nextHandle
                    /\ DOMAIN cache' = DOMAIN cache
                    /\ proc'[t].file = proc[t].file
                    /\ proc'[t].pc \in {"get_promote", "done"}
                    /\ proc'[t].err = ""]_vars

\* the second OpenFile of a workbook has returned its handle, at the deadline
C14_Witness ==
    \E t \in Workers :
        /\ proc[t].pc = "done" /\ proc[t].op = "OpenFile" /\ proc[t].found
        /\ proc[t].key \in DOMAIN cache
        /\ proc[t].file = cache[proc[t].key].file
        /\ now = cache[proc[t].key].expireAt

\* the steps of an OpenFile up to the failure of excelize.OpenFile: the
\* lookup that misses, with its purge, and the failing open.  The open can
\* fail after every lookup that missed.
OpenFileMissStep(t) ==
    /\ proc[t].op = "OpenFile" /\ proc'[t] # proc[t]
    /\ \/ proc[t].pc \in {"get_check", "get_lock_exp", "get_purge"}
       \/ proc[t].pc = "open_after_get" /\ proc'[t].err = "open failed"

\* C15 as stated: an OpenFile whose open fails on a miss returns the error
\* and leaves the cache (entries, recency order, size) and the selections
\* exactly as they were.
C15_FailedOpenChangesNothing ==
    [][\A t \in Workers :
         OpenFileMissStep(t) =>
             /\ C' = C /\ currentSheet' = currentSheet
             /\ proc'[t].err = "open failed" =>
                    (proc'[t].pc = "done" /\ proc'[t].file = NoHandle)]_vars

\* C15, corrected: an OpenFile whose open fails on a miss returns the error,
\* inserts no entry, leaves the selections as they were and removes no
\* entry but the expired entry of its own path, which its lookup purges
\* (closing the handle); the other entries keep their order.
C15_FailedOpenPurgesOnlyExpired ==
    [][\A t \in Workers :
         OpenFileMissStep(t) =>
             /\ currentSheet' = currentSheet /\ nextHandle' = nextHandle
             /\ proc'[t].err = "open failed" =>
                    /\ proc'[t].pc = "done" /\ proc'[t].file = NoHandle
                    /\ proc[t].key \notin DOMAIN cache
             /\ \/ C' = C
                \/ /\ proc[t].pc = "get_purge"
                   /\ DeadlinePassed(proc[t].key)
                   /\ C' = removeEntry(C, proc[t].key, cache[proc[t].key])]_vars

\* an OpenFile has failed after its lookup purged the expired entry of its
\* path, with another workbook still cached
C15_Witness ==
    \E t \in Workers :
        /\ proc[t].pc = "done" /\ proc[t].op = "OpenFile"
        /\ proc[t].err = "open failed"
        /\ proc[t].key \notin DOMAIN cache /\ Size(cache) = 1
        /\ \E h \in held : closeCount[h] = 1

\* ============================================ claims on Get, Put, Clear
\* C16: a Get that looks up a key which was put and is neither expired nor
\* removed returns the handle of the key's last Put, and found; a Get of a
\* key that was never put (or is no longer cached) returns not-found.
C16_GetReturnsWhatWasPut ==
    [][\A t \in Workers :
         (proc[t].op = "Get" /\ proc'[t] # proc[t]) =>
             /\ (/\ proc[t].pc = "get_check"
                 /\ proc[t].key \in DOMAIN lastFile
                 /\ ~DeadlinePassed(proc[t].key)) =>
                    /\ proc'[t].pc = "get_lock_hit"
                    /\ proc'[t].file = lastFile[proc[t].key]
             /\ proc[t].pc \in {"get_lock_hit", "get_promote"} =>
                    /\ proc'[t].file = proc[t].file
                    /\ \/ proc'[t].pc = "get_promote"
                       \/ proc'[t].pc = "done" /\ proc'[t].found
             /\ (proc[t].pc = "get_check" /\ proc[t].key \notin DOMAIN lastFile) =>
                    /\ proc'[t].pc = "done"
                    /\ ~proc'[t].found /\ proc'[t].file = NoHandle]_vars

\* a Get has returned the second handle that was put for its key
C16_Witness ==
    \E t \in Workers :
        /\ proc[t].pc = "done" /\ proc[t].op = "Get" /\ proc[t].found
        /\ proc[t].key \in DOMAIN lastFile
        /\ proc[t].file = lastFile[proc[t].key] /\ proc[t].file > 1
        /\ closeCount[proc[t].file] = 0

\* what Clear does to the cache: no entry and no list element is left, and
\* every handle that was cached has been closed once more
ClearEmpties(t) ==
    (proc[t].pc = "clear_body" /\ proc'[t].pc # "clear_body") =>
        /\ Size(cache') = 0 /\ lruList' = <<>>
        /\ \A h \in Handles :
               closeCount'[h] = closeCount[h] + (IF h \in CachedFiles THEN 1 ELSE 0)

ClearRemovesAll == [][\A t \in Workers : ClearEmpties(t)]_vars

\* C17: Clear removes every entry, expired or not, and closes every handle,
\* leaving size 0 and an empty recency list, and returns the number of
\* entries it cleared.
C17_ClearReturnsCount ==
    [][\A t \in Workers :
         /\ ClearEmpties(t)
         /\ (proc[t].pc = "clear_body" /\ proc'[t].pc # "clear_body") =>
                ClearResult(C) = Size(cache)]_vars

\* C18: the count FlushCache returns is the number of handles its Clear
\* closes, whatever other goroutines and the sweep do in between.
C18_FlushCountsWhatItCloses ==
    [][\A t \in Workers :
         (/\ proc[t].op = "FlushCache"
          /\ proc[t].pc = "clear_body" /\ proc'[t].pc # "clear_body") =>
             proc[t].count = Cardinality(CachedFiles)]_vars

\* ======================================= claims on the formula extractor
\* the range string is two valid cell references separated by one colon
RangeWellFormed(r) ==
    /\ Len(Split(r, ":")) = 2
    /\ ~CellNameToCoordinates(Split(r, ":")[1]).err
    /\ ~CellNameToCoordinates(Split(r, ":")[2]).err

\* the first cell of a well-formed range precedes the second
RangeOrdered(r) ==
    LET start == CellNameToCoordinates(Split(r, ":")[1])
        end == CellNameToCoordinates(Split(r, ":")[2])
    IN  start.col <= end.col /\ start.row <= end.row

\* C19: ExtractFormulasFromRange fails for every range string that is not
\* two valid cell references separated by one colon, and for every range
\* whose first cell does not precede the second (start column > end column
\* or start row > end row): it never succeeds with an empty result for one.
C19_RangeMustBeOrdered ==
    (fx.op = "ExtractFormulasFromRange" /\ fx.pc = "done") =>
        (~(RangeWellFormed(fx.arg) /\ RangeOrdered(fx.arg)) => fx.err # "")

\* the text without the spaces before its first and after its last
\* character that is not a space
Trimmed(s) ==
    LET solid == {i \in 1..Len(s) : s[i] # " "}
    IN  IF solid = {} THEN <<>>
        ELSE SubSeq(s, CHOOSE i \in solid : \A j \in solid : i <= j,
                       CHOOSE i \in solid : \A j \in solid : j <= i)
ParsesAsNumber(s) == s # <<>> /\ {s[i] : i \in 1..Len(s)} \subseteq Digits

\* C20: the upward header search for cell (col, row) returns the trimmed
\* text of the nearest cell in rows row-1 down to max(1, row-10) of the same
\* column that is non-blank and not parseable as a number, and the empty
\* label if there is none (so a header 9 rows above is found and a header 11
\* rows above, with nothing nearer, is not).
C20_NearestHeaderWithinTen ==
    (fx.op = "findColumnHeader" /\ fx.pc \in {"done", "cached"}) =>
        LET col == fx.arg.col
            row == fx.arg.row
            text(r) == Trimmed(GetCellValue(fx.fe.file, col, r))
            cand == {r \in Max(1, row - 10)..(row - 1) :
                        text(r) # <<>> /\ ~ParsesAsNumber(text(r))}
        IN  fx.header = IF cand = {} THEN <<>>
                        ELSE text(CHOOSE r \in cand : \A q \in cand : q <= r)

\* a header 9 rows above the cell is found past a number that is nearer
C20_Witness ==
    /\ fx.op = "findColumnHeader" /\ fx.pc = "done"
    /\ fx.arg.row > 9
    /\ GetCellValue(fx.fe.file, fx.arg.col, fx.arg.row - 9) = HeaderText
    /\ \E r \in (fx.arg.row - 8)..(fx.arg.row - 1) :
          GetCellValue(fx.fe.file, fx.arg.col, r) = <<" ", "1", "2">>
    /\ fx.header = <<"A", " ", "B">>

\* the elements of a recency list other than the one of path k, in order
OthersOf(l, k) == SelectSeq(l, LAMBDA e : e.Value # k)

\* C30: Put(key, h) on a key that is already present replaces the stored
\* handle by h, sets the deadline to now + TTL, moves the entry to the
\* most-recently-used position and changes nothing else: the size is
\* unchanged, no entry is evicted (no handle is closed), and the relative
\* recency order of all other entries is preserved.
C30_PutOnPresentKey ==
    [][(fx.op = "Put" /\ fx.pc = "call" /\ fx.key \in DOMAIN fx.c.cache) =>
          LET k == fx.key
              b == fx.c
              a == fx'.c
          IN  /\ DOMAIN a.cache = DOMAIN b.cache
              /\ a.cache[k].file = fx.file
              /\ a.cache[k].expireAt = fx.now + DefaultTTL
              /\ a.cache[k].listNode = b.cache[k].listNode
              /\ \A j \in DOMAIN b.cache \ {k} : a.cache[j] = b.cache[j]
              /\ Len(a.lruList) = Len(b.lruList)
              /\ a.lruList[1] = [node |-> b.cache[k].listNode, Value |-> k]
              /\ OthersOf(a.lruList, k) = OthersOf(b.lruList, k)
              /\ a.closeCount = b.closeCount]_vars

\* the least recently used of three entries was put again
C30_Witness ==
    /\ fx.op = "Put" /\ fx.pc = "done"
    /\ Len(fx.c.lruList) = 3
    /\ fx.c.lruList[1].Value = fx.key
    /\ fx.c.lruList[2].Value > fx.c.lruList[3].Value
    /\ fx.c.cache[fx.key].file = fx.file
    /\ fx.c.cache[fx.key].file # ((fx.key - 1) % MaxHandles) + 1
    /\ fx.c.cache[fx.key].expireAt = fx.now + DefaultTTL
    /\ \A h \in Handles : fx.c.closeCount[h] = 0

\* ============================================= claims on the cache config
\* the values of a variable that are no override: not set or empty, not a
\* number, zero, negative
NoOverride(v) ==
    \/ v \in {Unset, <<>>}
    \/ \E i \in 1..Len(v) : v[i] = "a"
    \/ v \in {<<"+">>, <<"-">>} \/ (Len(v) > 1 /\ \E i \in 2..Len(v) : v[i] \in {"+", "-"})
    \/ \A i \in 1..Len(v) : v[i] \in {"0", "+", "-"}
    \/ v[1] = "-"

\* C24: GetCacheConfig returns MaxSize 10 and TTL 5 minutes unless an
\* override is a positive integer: an unset, non-numeric, zero or negative
\* EXCEL_CACHE_MAX_SIZE or EXCEL_CACHE_TTL_MINUTES leaves the corresponding
\* default in place, and each override is applied independently of the other.
C24_ConfigDefaults ==
    (fx.op = "GetCacheConfig" /\ fx.pc = "done") =>
        LET size == fx.env.EXCEL_CACHE_MAX_SIZE
            ttl == fx.env.EXCEL_CACHE_TTL_MINUTES
        IN  /\ fx.config.MaxSize =
                   IF NoOverride(size) THEN 10 ELSE StrconvAtoi(size).val
            /\ fx.config.DefaultTTL =
                   IF NoOverride(ttl) THEN 5 ELSE StrconvAtoi(ttl).val
            /\ fx.config.MaxSize > 0 /\ fx.config.DefaultTTL > 0

\* a size override next to a TTL of zero: the size is taken, the TTL is not
C24_Witness ==
    /\ fx.op = "GetCacheConfig" /\ fx.pc = "done"
    /\ fx.env.EXCEL_CACHE_MAX_SIZE = <<"1", "1">>
    /\ fx.env.EXCEL_CACHE_TTL_MINUTES = <<"0">>
    /\ fx.config = [MaxSize |-> 11, DefaultTTL |-> 5]

\* ============================================ claims on translateFormula
\* positions i..j of s hold a cell reference: an optional "$", letters, an
\* optional "$", digits
IsRef(s, i, j) ==
    \E a \in {i, i + 1}, b \in i..j, c \in (i + 1)..j :
        /\ a <= b /\ c \in {b + 1, b + 2}
        /\ a = i + 1 => s[i] = "$"
        /\ \A x \in a..b : s[x] \in Letters
        /\ c = b + 2 => s[b + 1] = "$"
        /\ \A x \in c..j : s[x] \in Digits

WithoutMarkers(s) == SelectSeq(s, LAMBDA ch : ch # "$")

\* the label of the cell that a reference names, on a new extractor
LabelOf(sheet, ref) ==
    LET at == CellNameToCoordinates(WithoutMarkers(ref))
    IN  IF at.err THEN <<>>
        ELSE getCellLabel(NewFormulaExtractor(sheet), at.col, at.row).header

\* C21: translateFormula returns the formula string unchanged, character
\* for character (including any $ markers), whenever none of the cell
\* references in it has a discoverable column or row header.
C21_UnlabeledIsUnchanged ==
    (fx.op = "translateFormula" /\ fx.pc = "done") =>
        ((\A i, j \in 1..Len(fx.arg) :
              IsRef(fx.arg, i, j) => LabelOf(fx.fe.file, SubSeq(fx.arg, i, j)) = <<>>)
         => fx.text = fx.arg)

\* a formula with an absolute reference to a cell without header
C21_Witness ==
    /\ fx.op = "translateFormula" /\ fx.pc = "done"
    /\ fx.fe.file = ExampleSheet
    /\ fx.arg = <<"=", "$", "A", "$", "1">>
    /\ fx.text = fx.arg

\* the cell references of a formula, each as long as it can be and none
\* inside another: <<i, j>> for positions i..j
RefsOf(s) ==
    {p \in (1..Len(s)) \X (1..Len(s)) :
        /\ IsRef(s, p[1], p[2])
        /\ p[2] = Len(s) \/ s[p[2] + 1] \notin Digits
        /\ s[p[1]] = "$" \/ p[1] = 1 \/ s[p[1] - 1] \notin Letters \cup {"$"}}

\* what position i of the formula becomes: the label at the start of a
\* reference that has one, nothing inside it, the character elsewhere
PieceOf(sheet, s, i) ==
    LET labelled == {p \in RefsOf(s) : LabelOf(sheet, SubSeq(s, p[1], p[2])) # <<>>}
    IN  IF \E p \in labelled : p[1] = i
        THEN LabelOf(sheet, SubSeq(s, i, (CHOOSE p \in labelled : p[1] = i)[2]))
        ELSE IF \E p \in labelled : p[1] < i /\ i <= p[2] THEN <<>>
        ELSE <<s[i]>>

RECURSIVE PiecesFrom(_, _, _)
PiecesFrom(sheet, s, i) ==
    IF i > Len(s) THEN <<>> ELSE PieceOf(sheet, s, i) \o PiecesFrom(sheet, s, i + 1)

\* C22: translateFormula replaces every cell reference in the formula (with
\* or without $ markers) that has a resolved label by that label and leaves
\* every other character of the formula as it was; on the sheet with B1
\* "Age", B2 30 and C2 "=B2*2", the formula "=B2*2" becomes "=Age*2".
C22_LabeledIsReplaced ==
    (fx.op = "translateFormula" /\ fx.pc = "done") =>
        /\ fx.text = PiecesFrom(fx.fe.file, fx.arg, 1)
        /\ (fx.fe.file = ExampleSheet /\ fx.arg = <<"=", "B", "2", "*", "2">>)
               => fx.text = <<"=", "A", "g", "e", "*", "2">>
        /\ (fx.fe.file = ExampleSheet /\ fx.arg = <<"=", "$", "B", "$", "2">>)
               => fx.text = <<"=", "A", "g", "e">>

\* the formula of C2 translated on the sheet of the example
C22_Witness ==
    /\ fx.op = "translateFormula" /\ fx.pc = "done"
    /\ fx.fe.file = ExampleSheet
    /\ fx.arg = GetCellFormula(ExampleSheet, 3, 2)
    /\ fx.text = <<"=", "A", "g", "e", "*", "2">>

\* =========================================== claims on ExplainFormula
\* the sheet a call of ExplainFormula is about: the one it names or, for the
\* empty name, the path's current sheet (the last selection, else the first
\* sheet of the workbook)
SheetUsed(p) ==
    IF p.sheet # "" THEN p.sheet
    ELSE IF p.key \in DOMAIN lastSel THEN lastSel[p.key]
    ELSE IF p.key = EmptyBook THEN "" ELSE SheetList[1]

FormulaIn(p) ==
    IF SheetUsed(p) \in SheetNames(p.key) /\ ~CellNameToCoordinates(p.cell).err
    THEN GetCellFormula(BookOf(p.key)[SheetUsed(p)],
                        CellNameToCoordinates(p.cell).col,
                        CellNameToCoordinates(p.cell).row)
    ELSE <<>>

\* C23: ExplainFormula(path, cell, sheet) fails with an error whenever the
\* cell holds no formula and returns a record only for cells with a
\* non-empty formula; with an empty sheet argument it uses the path's
\* current sheet.
C23_ExplainNeedsFormula ==
    \A t \in Workers :
        (proc[t].pc = "done" /\ proc[t].op = "ExplainFormula") =>
            LET p == proc[t]
            IN  /\ FormulaIn(p) = <<>> => (p.err # "" /\ p.info = IdleProc.info)
                /\ p.err = "" =>
                       /\ FormulaIn(p) # <<>>
                       /\ p.info.Sheet = SheetUsed(p)
                       /\ p.info.Cell = p.cell
                       /\ p.info.Formula = FormulaIn(p)
                /\ (p.err = "" /\ SheetUsed(p) = "Sheet1" /\ p.cell = <<"C", "2">>) =>
                       /\ p.info.Formula = <<"=", "B", "2", "*", "2">>
                       /\ p.info.TranslatedFormula = <<"=", "A", "g", "e", "*", "2">>
                /\ (p.err # "" /\ p.err # "open failed") => FormulaIn(p) = <<>>

\* the formula of B2 on Sheet2, the sheet selected for the path, is
\* explained by a call that names no sheet
C23_Witness ==
    \E t \in Workers :
        /\ proc[t].pc = "done" /\ proc[t].op = "ExplainFormula"
        /\ proc[t].sheet = "" /\ proc[t].err = ""
        /\ proc[t].key \in DOMAIN lastSel
        /\ proc[t].info.Sheet = "Sheet2"
        /\ proc[t].info.Formula = <<"=", "1", "*", "2">>

\* ============================================== claims on GetSheetStats
\* the cells of the rows that are not blank, as <<row, column>> from 1
DataCells(rows) ==
    {p \in (1..Len(rows)) \X (1..MaxStatCols) :
        p[2] <= Len(rows[p[1]]) /\ Trimmed(rows[p[1]][p[2]]) # <<>>}

\* C25: GetSheetStats reports the bounding box of the non-blank cells:
\* FirstDataRow/LastDataRow are the smallest/largest row holding a non-blank
\* cell, FirstDataCol/LastDataCol the names of the smallest/largest column
\* holding one over all rows, whatever the order in which rows with
\* different first columns appear.
C25_DataBoundingBox ==
    (fx.op = "GetSheetStats" /\ fx.pc = "done" /\ DataCells(fx.rows) # {}) =>
        LET d == DataCells(fx.rows)
        IN  /\ \E p \in d : fx.stats.FirstDataRow = p[1] /\ \A q \in d : p[1] <= q[1]
            /\ \E p \in d : fx.stats.LastDataRow = p[1] /\ \A q \in d : q[1] <= p[1]
            /\ \E p \in d : /\ fx.stats.FirstDataCol = ColumnNumberToName(p[2])
                            /\ \A q \in d : p[2] <= q[2]
            /\ \E p \in d : /\ fx.stats.LastDataCol = ColumnNumberToName(p[2])
                            /\ \A q \in d : q[2] <= p[2]

\* ========================================= claims on the filesystem Handler
\* the elements of a path: the names between its separators, "." left out
\* and ".." taken with the name before it
ElementsOf(path) == CleanElements(Split(path, "/"), <<>>)

\* the path is an allowed root or lies beneath one, element by element
WithinRoots(h, path) ==
    \E i \in 1..Len(h.allowedRoots) :
        LET root == ElementsOf(h.allowedRoots[i])
        IN  /\ Len(root) <= Len(ElementsOf(path))
            /\ SubSeq(ElementsOf(path), 1, Len(root)) = root

\* C26: after any sequence of ChangeDirectory calls (successful or failed)
\* the current working directory equals an allowed root or lies beneath
\* one; a ChangeDirectory that is rejected (outside the roots, missing, or
\* not a directory) leaves the current working directory unchanged.
C26_WorkingDirectoryStaysInside ==
    fx.op = "Handler" =>
        /\ WithinRoots(fx.h, fx.h.currentWD)
        /\ fx.h.currentWD \in Dirs
        /\ (fx.pc = "done" /\ fx.call = "ChangeDirectory") =>
               /\ fx.err # "" => fx.h.currentWD = fx.wd
               /\ (~WithinRoots(fx.h, Clean(IF IsAbs(fx.arg) THEN fx.arg
                                            ELSE fx.wd \o <<"/">> \o fx.arg))
                   => fx.err # "")
        /\ (fx.pc = "done" /\ fx.call # "ChangeDirectory") => fx.h.currentWD = fx.wd

\* a ChangeDirectory out of the roots is rejected in a directory that an
\* earlier ChangeDirectory went to
C26_Witness ==
    /\ fx.op = "Handler" /\ fx.pc = "done" /\ fx.call = "ChangeDirectory"
    /\ fx.h.allowedRoots = << <<"/", "a">> >>
    /\ fx.wd = <<"/", "a", "/", "a">>
    /\ fx.arg = <<".", ".", "/", ".", ".", "/">>
    /\ fx.err = "access denied: path outside allowed roots"
    /\ fx.h.currentWD = fx.wd

\* C27: for every input path, relative (resolved from the current working
\* directory) or absolute, ReadFile, GetFileInfo, ListDirectory and
\* ChangeDirectory fail with an access-denied error when the cleaned
\* absolute path is neither an allowed root nor beneath one, regardless of
\* how many ../ components the input uses and of the working directory.
C27_OutsideIsDenied ==
    (fx.op = "Handler" /\ fx.pc = "done"
       /\ ~(fx.call = "ListDirectory" /\ fx.arg = <<>>)) =>
        LET abs == Clean(IF IsAbs(fx.arg) THEN fx.arg ELSE fx.wd \o <<"/">> \o fx.arg)
        IN  /\ ~WithinRoots(fx.h, abs) =>
                   fx.err = "access denied: path outside allowed roots"
            /\ fx.err # "access denied: path outside allowed roots" =>
                   (fx.call = "ChangeDirectory" \/ fx.path = abs)

\* an existing directory outside the roots is refused to ListDirectory,
\* asked for by a relative path from the second root
C27_Witness ==
    /\ fx.op = "Handler" /\ fx.pc = "done" /\ fx.call = "ListDirectory"
    /\ Len(fx.h.allowedRoots) = 2
    /\ fx.wd = <<"/", "b">>
    /\ fx.arg = <<".", ".", "/", "a", "b">>
    /\ fx.err = "access denied: path outside allowed roots"

\* ============================================ claims on the supervisor
\* C28: once Stop() has been called, the supervisor never starts a new
\* server process, whether the restart signal is pending, arrives later or
\* is already being handled (the back-off delay included).  Stated for the
\* starts that happen after Stop() has returned.
C28_NoStartAfterStop ==
    fx.op = "Supervisor" => ~fx.startedAfterStop

\* C29: after Stop() has set the shutdown flag and cancelled the supervisor
\* context, supervisorLoop eventually returns, from wherever it was.
C29_SupervisorReturns ==
    (fx.op = "Supervisor" /\ fx.isShutdown /\ fx.cancelled)
        ~> (fx.sup = "returned")

\* the supervisor has returned after Stop although a restart attempt had
\* failed at the start of the process and a restart signal is still pending
C29_Witness ==
    /\ fx.op = "Supervisor" /\ fx.isShutdown /\ fx.cancelled
    /\ fx.sup = "returned"
    /\ fx.cmd = NoProcess /\ fx.restartChan = 1

\* ================================================ frame claims on the cache
\* the paths of the list other than k, front to back
OrderWithout(l, k) ==
    SelectSeq([i \in 1..Len(l) |-> l[i].Value], LAMBDA x : x # k)

\* the entries of S have the handle and the deadline they had
SameEntries(S) ==
    \A j \in S : /\ cache'[j].file = cache[j].file
                 /\ cache'[j].expireAt = cache[j].expireAt

\* C31: a Get removes at most the entry of its key, and only when that
\* entry's deadline (its last Put plus the TTL) has passed at the time of the
\* removal; an entry that a concurrent Put refreshed is kept; a Get of an
\* absent key changes nothing; no Get changes the handle, the deadline or the
\* relative order of another key.
C31_GetTouchesOnlyItsKey ==
    [][\A t \in Workers :
         LET k == proc[t].key
         IN  /\ (proc[t].pc \in {"get_check", "get_lock_exp", "get_lock_hit"}
                    /\ proc'[t] # proc[t]) =>
                    (cache' = cache /\ lruList' = lruList /\ closeCount' = closeCount)
             /\ (proc[t].pc \in {"get_purge", "get_promote"}
                    /\ proc'[t].pc # proc[t].pc) =>
                    /\ DOMAIN cache' \subseteq DOMAIN cache
                    /\ (DOMAIN cache) \ (DOMAIN cache') \subseteq {k}
                    /\ k \notin DOMAIN cache => cache' = cache /\ lruList' = lruList
                    /\ (k \in DOMAIN cache /\ k \notin DOMAIN cache') =>
                           (proc[t].pc = "get_purge" /\ now > lastPut[k] + DefaultTTL)
                    /\ SameEntries(DOMAIN cache')
                    /\ OrderWithout(lruList', k) = OrderWithout(lruList, k)
                    /\ \A h \in Handles :
                           closeCount'[h] # closeCount[h] =>
                               (k \in DOMAIN cache /\ k \notin DOMAIN cache'
                                   /\ h = cache[k].file)]_vars

\* a Get about to re-check, under the exclusive lock, an entry that was past
\* its deadline when the Get looked and that a Put has refreshed since,
\* beside another entry
C31_Witness ==
    \E t \in Workers :
        /\ proc[t].pc = "get_purge"
        /\ proc[t].key \in DOMAIN cache
        /\ proc[t].lnow > 0 + DefaultTTL
        /\ lastPut[proc[t].key] = proc[t].lnow
        /\ Size(cache) = 2

\* C32: CleanExpired removes and closes every entry whose deadline (its last
\* Put plus the TTL) has passed at the time of the sweep, whatever the size
\* of the cache, and nothing else: the other entries keep their handle, their
\* deadline and their relative order.
C32_SweepRemovesExactlyExpired ==
    [][\A t \in Workers :
         (proc[t].pc = "clean_body" /\ proc'[t].pc # "clean_body") =>
             LET expired == {k \in DOMAIN cache : now > lastPut[k] + DefaultTTL}
             IN  /\ DOMAIN cache' = (DOMAIN cache) \ expired
                 /\ SameEntries(DOMAIN cache')
                 /\ [i \in 1..Len(lruList') |-> lruList'[i].Value] =
                        SelectSeq([i \in 1..Len(lruList) |-> lruList[i].Value],
                                  LAMBDA x : x \notin expired)
                 /\ \A h \in Handles :
                        closeCount'[h] =
                            IF \E k \in expired : cache[k].file = h
                            THEN closeCount[h] + 1 ELSE closeCount[h]]_vars

\* a sweep about to run on a cache below its capacity in which one entry is
\* past its deadline and another is not
C32_Witness ==
    \E t \in Workers :
        /\ proc[t].pc = "clean_body"
        /\ maxSize = 2 /\ Size(cache) = 2
        /\ \E k \in DOMAIN cache : now > lastPut[k] + DefaultTTL
        /\ \E k \in DOMAIN cache : now <= lastPut[k] + DefaultTTL

\* C33: the recency order follows the real-time order of the successful
\* accesses: a Get that returns found has moved the entry of its key, when
\* the cache still holds one, to the most-recently-used position before it
\* returns.
C33_FoundGetIsMostRecent ==
    [][\A t \in Workers :
         (/\ proc[t].pc = "get_promote" /\ proc'[t].pc # "get_promote"
          /\ proc'[t].found
          /\ proc[t].key \in DOMAIN cache') =>
             lruList'[1].Value = proc[t].key]_vars

\* =========================================== the selections over time
\* C34: once a path has a selection, GetCurrentSheet does not fall back to
\* the first sheet for it until a flush (or an eviction of the path) has
\* occurred: no step but the reset of FlushCache removes a selection, only a
\* successful SetCurrentSheet on the path changes it, to the name it was
\* given, and GetCurrentSheet returns it.
C34_SelectionStaysUntilFlush ==
    [][/\ \A k \in DOMAIN currentSheet :
             \/ k \in DOMAIN currentSheet' /\ currentSheet'[k] = currentSheet[k]
             \/ \E t \in Workers :
                   /\ proc[t].pc = "set_write" /\ proc'[t].pc # "set_write"
                   /\ proc[t].key = k
                   /\ \E i \in 1..Len(SheetsOf(k)) : SheetsOf(k)[i] = proc[t].sheet
             \/ \E t \in Workers :
                   /\ proc[t].op = "FlushCache"
                   /\ proc[t].pc = "flush_reset" /\ proc'[t].pc # "flush_reset"
       /\ \A t \in Workers :
             (proc[t].pc = "set_write" /\ proc'[t].pc # "set_write") =>
                 /\ proc[t].key \in DOMAIN currentSheet'
                 /\ currentSheet'[proc[t].key] = proc[t].sheet
       /\ \A t \in Workers :
             (/\ proc[t].pc = "current_read" /\ proc'[t].pc = "done"
              /\ proc[t].key \in DOMAIN currentSheet) =>
                 /\ proc'[t].err = ""
                 /\ proc'[t].sheet = currentSheet[proc[t].key]]_vars

\* GetCurrentSheet has returned the selection of the first path, which is
\* not its first sheet, after the workbook was evicted and opened again and
\* while the other path is cached too
C34_Witness ==
    \E t \in Workers :
        /\ proc[t].pc = "done" /\ proc[t].op = "GetCurrentSheet"
        /\ proc[t].key = 1 /\ proc[t].err = "" /\ proc[t].sheet = "Sheet2"
        /\ 2 \in DOMAIN cache /\ 1 \in DOMAIN cache
        /\ \E h \in Handles : closeCount[h] > 0

\* ================================================== claims on the labels
\* the coordinates of the cell names of the model that are valid
NameCoords ==
    (<<"A", "A", "2">> :> <<27, 2>>) @@ (<<"A", "B", "2">> :> <<28, 2>>)
        @@ (<<"B", "2">> :> <<2, 2>>) @@ (<<"A", "1">> :> <<1, 1>>)

\* the text of a header cell: not blank and not a number
IsHeaderCell(file, col, row) ==
    LET v == Trimmed(GetCellValue(file, col, row))
    IN  v # <<>> /\ ~ParsesAsNumber(v)

\* the nearest header above (col, row), in rows row-1 down to max(1, row-10)
UpLabel(file, col, row) ==
    LET rows == {r \in 1..(row - 1) : r >= row - 10 /\ IsHeaderCell(file, col, r)}
    IN  IF rows = {} THEN <<>>
        ELSE Trimmed(GetCellValue(file, col, CHOOSE r \in rows : \A q \in rows : q <= r))

\* the nearest header left of (col, row), in columns col-1 down to max(1, col-10)
LeftLabel(file, col, row) ==
    LET cols == {c \in 1..(col - 1) : c >= col - 10 /\ IsHeaderCell(file, c, row)}
    IN  IF cols = {} THEN <<>>
        ELSE Trimmed(GetCellValue(file, CHOOSE c \in cols : \A q \in cols : q <= c, row))

\* C35: getCellLabel returns the header of the upward search when there is
\* one, otherwise the result of the leftward search over columns col-1 down
\* to max(1, col-10); the label is empty exactly when both find nothing or
\* the cell name is invalid.
C35_ColumnHeaderThenRowHeader ==
    (fx.op = "getCellLabel" /\ fx.pc = "done") =>
        IF fx.arg \notin DOMAIN NameCoords THEN fx.header = <<>>
        ELSE LET col == NameCoords[fx.arg][1]
                 row == NameCoords[fx.arg][2]
                 up == UpLabel(fx.fe.file, col, row)
                 left == LeftLabel(fx.fe.file, col, row)
             IN  /\ up # <<>> => fx.header = up
                 /\ up = <<>> => fx.header = left
                 /\ fx.header = <<>> <=> (up = <<>> /\ left = <<>>)

\* the label of AA2 is the header ten columns to its left, with a number
\* above the cell and no cell next to it on the left
C35_Witness ==
    /\ fx.op = "getCellLabel" /\ fx.pc = "done"
    /\ fx.arg = <<"A", "A", "2">>
    /\ fx.header = <<"B">>
    /\ GetCellValue(fx.fe.file, 17, 2) = <<"B">>
    /\ GetCellValue(fx.fe.file, 27, 1) = <<"1">>
    /\ <<26, 2>> \notin DOMAIN fx.fe.file.value

\* a sheet with a header in every cell
CrowdedSheet ==
    [value |-> [p \in (1..11) \X (1..12) |-> <<"A", "A">>], formula |-> EmptyMap]

\* what a scan of the sheet gives, with no cache
FreshScan(file, d, col, row) ==
    IF d = "column" THEN UpLabel(file, col, row) ELSE LeftLabel(file, col, row)

\* C36: on an unchanged sheet a memoized header lookup returns the label of
\* a fresh scan, for every direction and cell and after any sequence of
\* earlier lookups: the column and the row result of a cell do not share a
\* slot, empty results are cached too, and a repeated lookup reads no cell
\* (it gives the same label on a sheet whose cells have all changed).
C36_MemoizedEqualsFresh ==
    fx.op = "lookups" =>
        /\ fx.call # <<>> =>
               fx.header = FreshScan(fx.fe.file, fx.call[1], fx.call[2], fx.call[3])
        /\ \A d \in Directions, at \in LookupCells :
               LET fresh == FreshScan(fx.fe.file, d, at[1], at[2])
                   next == FindHeader(fx.fe, d, at[1], at[2])
                   blind == FindHeader([fx.fe EXCEPT !.file = CrowdedSheet],
                                       d, at[1], at[2])
               IN  /\ next.header = fresh
                   /\ <<d, at[1], at[2]>> \in fx.seen =>
                          (blind.header = fresh /\ next.fe = fx.fe)

\* the row lookup of B2 has given "B" after the column lookup of B2 gave
\* "A", with an empty result cached for the row lookup of A2
C36_Witness ==
    /\ fx.op = "lookups"
    /\ fx.call = <<"row", 2, 2>> /\ fx.header = <<"B">>
    /\ <<"column", 2, 2>> \in fx.seen
    /\ FreshScan(fx.fe.file, "column", 2, 2) = <<"A">>
    /\ <<"row", 1, 2>> \in fx.seen

\* the rules of the classification of a trimmed text, in their order, each
\* with its tag
ClassRules(t) ==
    <<[tag |-> "integer", holds |-> ParseIntOk(t)],
      [tag |-> "number", holds |-> ParseFloatOk(t)],
      [tag |-> "boolean", holds |-> ToLower(t) = <<"t", "r", "u", "e">>
                                    \/ ToLower(t) = <<"f", "a", "l", "s", "e">>],
      [tag |-> "date", holds |-> Len(t) >= 8 /\ \E i \in 1..Len(t) : t[i] \in {"/", "-"}],
      [tag |-> "text", holds |-> TRUE]>>

\* the tag of the first rule that matches
FirstRuleTag(t) ==
    LET rules == ClassRules(t)
        i == CHOOSE n \in 1..Len(rules) :
                 rules[n].holds /\ \A m \in 1..(n - 1) : ~rules[m].holds
    IN  rules[i].tag

\* the cells of the sheet that are not blank, as <<row, column>>
NonBlankCells(rows) ==
    {c \in (1..Len(rows)) \X (1..2) :
        c[2] <= Len(rows[c[1]]) /\ TrimSpace(rows[c[1]][c[2]]) # <<>>}

\* C37: every cell that is not blank is counted once, under the tag of the
\* first rule that matches its trimmed text in the order integer, number,
\* boolean, date, text: the count of each tag in DataTypes is the number of
\* such cells, a tag without a cell and the tag empty have no count, and
\* the counts add up to NonEmptyCells.
C37_FirstMatchingRuleCounts ==
    (fx.op = "GetSheetStats" /\ fx.pc = "done") =>
        LET cells == NonBlankCells(fx.rows)
            tagged(g) == {c \in cells : FirstRuleTag(TrimSpace(fx.rows[c[1]][c[2]])) = g}
            types == fx.stats.DataTypes
        IN  /\ fx.stats.NonEmptyCells = Cardinality(cells)
            /\ DOMAIN types = {g \in {"integer", "number", "boolean", "date", "text"} :
                                  tagged(g) # {}}
            /\ \A g \in DOMAIN types : types[g] = Cardinality(tagged(g))
            /\ "empty" \notin DOMAIN types

\* a number that is as long as a date and has a '-' is counted as a number,
\* beside a boolean
C37_Witness ==
    /\ fx.op = "GetSheetStats" /\ fx.pc = "done"
    /\ fx.rows = <<<<(<<"-", "1", "1", "1", "1", "1", ".", "1">>), <<"t", "r", "u", "e">>>>>>
    /\ fx.stats.DataTypes = [number |-> 1, boolean |-> 1]
    /\ fx.stats.NonEmptyCells = 2

\* C38: Put stops for every capacity that NewFileCache takes: whenever its
\* eviction loop is to take one more turn, with the lock held, that turn
\* makes the list shorter, so that the loop ends and the lock is released.
C38_EvictionLoopMakesProgress ==
    (fx.op = "PutSteps" /\ fx.pc = "evict" /\ Len(fx.c.lruList) > fx.maxSize) =>
        Len(evictOldest(fx.c).lruList) < Len(fx.c.lruList)

\* C39: once the calls have returned, no handle that OpenFile opened and put
\* in the cache is left open outside the cache: each is the handle of an
\* entry or has been closed, also when two calls missed the same path and
\* the second Put took the place of the first handle.
C39_NoOrphanedHandle ==
    (\A t \in Workers : proc[t].pc = "idle") =>
        \A h \in held : h \in CachedFiles \/ closeCount[h] >= 1

====
